----------------------------- MODULE XcmProofs -----------------------------
(***************************************************************************)
(* Payouts and transfers over XCM, for any network, any set of transfers   *)
(* and any configuration that meets the assumptions of XcmNetwork and      *)
(* XcmAssetTransactor.                                                     *)
(***************************************************************************)
EXTENDS XcmAssetTransactor, FoldTheorems

----------------------------------------------------------------------------
(* Ledgers *)

Ledgers == [Nodes -> [Tokens -> [Holders -> Nat]]]

\* What an entry gains when amount is put at another or the same entry.
Gain(c, token, who, amount, k, t, h) ==
    IF k = c /\ t = token /\ h = who THEN amount ELSE 0

\* The entries of `to` are those of led, changed by amount at one of them.
Changed(to, led, c, token, who, amount) ==
    \A k \in Nodes, t \in Tokens, h \in Holders :
        to[k][t][h] = led[k][t][h] + Gain(c, token, who, amount, k, t, h)

\* credit changes one entry, if the ledgers have it.
LEMMA Credited ==
    ASSUME NEW led \in Ledgers, NEW c, NEW token, NEW who, NEW amount \in Nat,
           NEW to, to = credit(led, c, token, who, amount)
    PROVE  to \in Ledgers /\ Changed(to, led, c, token, who, amount)
<1>1. ASSUME c \in Nodes, token \in Tokens, who \in Holders
      PROVE  to \in Ledgers /\ Changed(to, led, c, token, who, amount)
  BY <1>1 DEF credit, Ledgers, Changed, Gain
<1>2. ASSUME ~(c \in Nodes /\ token \in Tokens /\ who \in Holders)
      PROVE  to = led
  BY <1>2 DEF credit, Ledgers
<1> QED
  BY <1>1, <1>2 DEF Ledgers, Changed, Gain

\* So does debit, when the entry is large enough.
LEMMA Debited ==
    ASSUME NEW led \in Ledgers, NEW c, NEW token, NEW who, NEW amount \in Nat,
           c \in Nodes /\ token \in Tokens /\ who \in Holders => led[c][token][who] >= amount,
           NEW to, to = debit(led, c, token, who, amount)
    PROVE  to \in Ledgers /\ Changed(to, led, c, token, who, 0 - amount)
<1>1. ASSUME c \in Nodes, token \in Tokens, who \in Holders
      PROVE  to \in Ledgers /\ Changed(to, led, c, token, who, 0 - amount)
  BY <1>1 DEF debit, Ledgers, Changed, Gain
<1>2. ASSUME ~(c \in Nodes /\ token \in Tokens /\ who \in Holders)
      PROVE  to = led
  BY <1>2 DEF debit, Ledgers
<1> QED
  BY <1>1, <1>2 DEF Ledgers, Changed, Gain

----------------------------------------------------------------------------
(* Places and programs *)

Places == [parents : {0, 1}, first : Nat \cup {None}]
FeesOffered == [asset : Places, amount : Nat]
Deposits == [op : {"DepositAsset"}, beneficiary : Accounts \ BridgeAccounts]
Forwards == [op : {"DepositReserveAsset"}, dest : Places, fees : FeesOffered, then : Deposits]
Message ==
    [id : Nat, begins : {"ReserveAssetDeposited", "WithdrawAsset"}, asset : Places,
     amount : Nat, fees : FeesOffered, then : Deposits \cup Forwards]

\* A chain has a number.
LEMMA NodeIsNat ==
    ASSUME NEW c \in Nodes
    PROVE  c \in Nat
BY XcmAssumption, NetworkAssumption DEF RELAY

\* A place leads to a chain.
LEMMA ChainOfPlace ==
    ASSUME NEW c \in Nat, NEW l \in Places
    PROVE  chain_of(c, l) \in Nat
BY XcmAssumption DEF Places, chain_of, RELAY

\* A chain is seen as a place, which leads back to it.
LEMMA SeenChain ==
    ASSUME NEW c \in Nat, NEW chain \in Nat
    PROVE  seen_from(c, chain) \in Places /\ chain_of(c, seen_from(c, chain)) = chain
BY XcmAssumption DEF Places, chain_of, seen_from, HERE, PARENT, Sibling, Loc, RELAY

\* An asset that has a reserve location leads to the chain that this one leads to.
LEMMA ReserveChain ==
    ASSUME NEW c \in Nat, NEW asset, reserved_location(asset) # None
    PROVE  /\ chain_of(c, reserved_location(asset)) = chain_of(c, asset)
           /\ chain_of(c, asset) \in Nat
           /\ is_native_asset(c, asset) => chain_of(c, asset) = c
BY XcmAssumption
   DEF chain_of, reserved_location, HERE, PARENT, Sibling, Loc, RELAY, is_native_asset

\* The destination of a transfer, and what the reserve chain makes of it.
LEMMA DestinationPlace ==
    ASSUME NEW dest, NEW d, d = extract_dest(dest), d # None, NEW reserve
    PROVE  d \in Places /\ reanchored_dest(reserve, d) \in Places
BY XcmAssumption DEF Places, extract_dest, reanchored_dest, PARENT, Sibling, Loc

\* The fees a BuyExecution offers.
LEMMA FeesBought ==
    ASSUME NEW c \in Nat, NEW at \in Nat, NEW asset, NEW amount \in Nat,
           NEW fee, fee = [asset |-> asset, amount |-> amount], chain_of(c, asset) \in Nat
    PROVE  buy_execution(fee, c, at) \in FeesOffered /\ buy_execution(half(fee), c, at) \in FeesOffered
<1>1. seen_from(at, chain_of(c, asset)) \in Places
  BY SeenChain
<1>2. amount \div 2 \in Nat
  OBVIOUS
<1> QED
  BY <1>1, <1>2 DEF buy_execution, half, fungible_amount, reanchored, FeesOffered

\* What create_instructions makes of a transfer that passes the checks: the asset
\* moves on its own chain and is announced to the destination, or it is
\* withdrawn and its own chain is told to withdraw it there.
IsProgram(p, r) ==
    LET home == chain_of(r.chain, r.asset)
    IN  /\ p.to \in Nat /\ home \in Nat /\ p.fees \in FeesOffered
        /\ \/ /\ p.local = "TransferReserveAsset" /\ p.begins = "ReserveAssetDeposited"
              /\ p.then \in Deposits /\ home = r.chain
           \/ /\ p.local # "TransferReserveAsset" /\ p.begins = "WithdrawAsset"
              /\ p.then \in Deposits \cup Forwards /\ home = p.to

\* transfer builds such a program for every transfer it does not refuse.
LEMMA Program ==
    ASSUME NEW r \in Asked, transfer_error(r.asset, r.dest) = "Ok"
    PROVE  IsProgram(program(r), r)
<1> DEFINE c == r.chain
           fee == [asset |-> r.asset, amount |-> MinXcmFee(r.asset)]
           dest == extract_dest(r.dest)
           reserve == reserved_location(r.asset)
           last == deposit_asset(r.dest.who)
<1>1. /\ c \in Nat /\ MinXcmFee(r.asset) \in Nat /\ r.dest.who \in Accounts \ BridgeAccounts
      /\ dest # None /\ reserve # None
  <2>1. c \in Nodes /\ MinXcmFee(r.asset) \in Nat \cup {None} /\ r.dest.who \in Accounts
    BY TransferAssumption, Zenon
  <2>2. r.dest.who \notin BridgeAccounts
    BY BridgeAccountsAssumption, Zenon
  <2>3. dest # None /\ MinXcmFee(r.asset) # None /\ reserve # None
    BY DEF transfer_error
  <2>4. c \in Nat
    BY <2>1, NodeIsNat
  <2> QED
    BY <2>1, <2>2, <2>3, <2>4, Zenon
<1>2. last \in Deposits
  BY <1>1 DEF deposit_asset, Deposits
<1>3. /\ chain_of(c, reserve) = chain_of(c, r.asset) /\ chain_of(c, r.asset) \in Nat
      /\ is_native_asset(c, r.asset) => chain_of(c, r.asset) = c
  BY <1>1, ReserveChain
<1>4. dest \in Places /\ reanchored_dest(reserve, dest) \in Places /\ chain_of(c, dest) \in Nat
  BY <1>1, DestinationPlace, ChainOfPlace
<1>5. \A at \in Nat : buy_execution(fee, c, at) \in FeesOffered
                     /\ buy_execution(half(fee), c, at) \in FeesOffered
  BY <1>1, <1>3, FeesBought
<1>6. CASE is_native_asset(c, r.asset)
  <2>1. program(r) = transfer_self_reserve_asset(c, fee, dest, r.dest.who)
    BY <1>6 DEF program, create_instructions, transfer_kind
  <2> QED
    BY <1>2, <1>3, <1>4, <1>5, <1>6, <2>1 DEF transfer_self_reserve_asset, IsProgram
<1>7. CASE ~is_native_asset(c, r.asset) /\ reserve = dest
  <2>1. program(r) = transfer_to_reserve_asset(c, fee, dest, r.dest.who)
    BY <1>7 DEF program, create_instructions, transfer_kind
  <2> QED
    BY <1>2, <1>3, <1>4, <1>5, <1>7, <2>1 DEF transfer_to_reserve_asset, IsProgram
<1>8. CASE ~is_native_asset(c, r.asset) /\ reserve # dest
  <2>1. program(r) = transfer_to_non_reserve_asset(c, fee, reserve, dest, r.dest.who)
    BY <1>8 DEF program, create_instructions, transfer_kind
  <2>2. program(r).then \in Forwards
    BY <1>2, <1>4, <1>5, <2>1 DEF transfer_to_non_reserve_asset, Forwards
  <2> QED
    BY <1>3, <1>5, <2>1, <2>2 DEF transfer_to_non_reserve_asset, IsProgram
<1> QED
  BY <1>6, <1>7, <1>8

----------------------------------------------------------------------------
(* Channels *)

\* A message announces the asset of the chain it comes from, for a recipient on
\* the chain it goes to, or withdraws the asset of the chain it goes to.
OnRoute(q, m) ==
    IF m.begins = "ReserveAssetDeposited"
    THEN m.asset = seen_from(q[2], q[1]) /\ m.then \in Deposits
    ELSE m.asset = HERE

\* The channels ch hold messages of the transfers ids, one for each at most.
InTransit(ch, ids) ==
    /\ ch \in [Pairs -> Seq(Message)]
    /\ \A q \in Pairs : \A i \in 1 .. Len(ch[q]) : ch[q][i].id \in ids /\ OnRoute(q, ch[q][i])
    /\ \A q1, q2 \in Pairs : \A i \in 1 .. Len(ch[q1]), j \in 1 .. Len(ch[q2]) :
          ch[q1][i].id = ch[q2][j].id => q1 = q2 /\ i = j

\* A message is taken from a channel.
LEMMA Popped ==
    ASSUME NEW ch, NEW ids, InTransit(ch, ids), NEW q \in Pairs, ch[q] # <<>>,
           NEW m, m = Head(ch[q]), NEW to, to = [ch EXCEPT ![q] = Tail(@)]
    PROVE  m \in Message /\ m.id \in ids /\ OnRoute(q, m) /\ InTransit(to, ids \ {m.id})
<1>1. ch \in [Pairs -> Seq(Message)] /\ ch[q] \in Seq(Message)
  BY DEF InTransit
<1>2. /\ 1 \in 1 .. Len(ch[q]) /\ m = ch[q][1] /\ m \in Message
      /\ Tail(ch[q]) \in Seq(Message) /\ Len(Tail(ch[q])) = Len(ch[q]) - 1
      /\ \A i \in 1 .. Len(ch[q]) - 1 : /\ Tail(ch[q])[i] = ch[q][i + 1]
                                       /\ i + 1 \in 1 .. Len(ch[q]) /\ i + 1 # 1
  BY <1>1
<1>3. m.id \in ids /\ OnRoute(q, m)
  BY <1>2 DEF InTransit
<1>4. /\ to \in [Pairs -> Seq(Message)] /\ to[q] = Tail(ch[q])
      /\ \A p \in Pairs \ {q} : to[p] = ch[p]
  BY <1>1, <1>2
<1> DEFINE at(p, i) == IF p = q THEN i + 1 ELSE i
<1>5. \A p \in Pairs : \A i \in 1 .. Len(to[p]) :
         /\ at(p, i) \in 1 .. Len(ch[p]) /\ to[p][i] = ch[p][at(p, i)]
         /\ p = q => at(p, i) # 1
  BY <1>2, <1>4
<1>6. \A p \in Pairs : \A j \in 1 .. Len(ch[p]) : ch[p][j].id = m.id => p = q /\ j = 1
  BY <1>2 DEF InTransit
<1>7. \A p \in Pairs : \A i \in 1 .. Len(to[p]) :
         to[p][i].id \in ids \ {m.id} /\ OnRoute(p, to[p][i])
  <2> SUFFICES ASSUME NEW p \in Pairs, NEW i \in 1 .. Len(to[p])
               PROVE  to[p][i].id \in ids \ {m.id} /\ OnRoute(p, to[p][i])
    OBVIOUS
  <2>1. at(p, i) \in 1 .. Len(ch[p]) /\ to[p][i] = ch[p][at(p, i)] /\ (p = q => at(p, i) # 1)
    BY <1>5
  <2> HIDE DEF at
  <2>2. ch[p][at(p, i)].id \in ids /\ OnRoute(p, ch[p][at(p, i)])
    BY <2>1 DEF InTransit
  <2> QED
    BY <1>6, <2>1, <2>2
<1>8. \A q1, q2 \in Pairs : \A i \in 1 .. Len(to[q1]), j \in 1 .. Len(to[q2]) :
         to[q1][i].id = to[q2][j].id => q1 = q2 /\ i = j
  <2> SUFFICES ASSUME NEW q1 \in Pairs, NEW q2 \in Pairs,
                      NEW i \in 1 .. Len(to[q1]), NEW j \in 1 .. Len(to[q2]),
                      to[q1][i].id = to[q2][j].id
               PROVE  q1 = q2 /\ i = j
    OBVIOUS
  <2>1. /\ at(q1, i) \in 1 .. Len(ch[q1]) /\ to[q1][i] = ch[q1][at(q1, i)]
        /\ at(q2, j) \in 1 .. Len(ch[q2]) /\ to[q2][j] = ch[q2][at(q2, j)]
    BY <1>5, Zenon
  <2>2. q1 = q2 /\ at(q1, i) = at(q2, j)
    <3> HIDE DEF at
    <3> QED
      BY <2>1 DEF InTransit
  <2>3. i \in Int /\ j \in Int
    OBVIOUS
  <2> QED
    BY <2>2, <2>3
<1> QED
  BY <1>2, <1>3, <1>4, <1>7, <1>8 DEF InTransit

\* A message is put into a channel.
LEMMA Pushed ==
    ASSUME NEW ch, NEW ids, InTransit(ch, ids), NEW q \in Pairs, NEW m \in Message,
           m.id \notin ids, OnRoute(q, m), NEW to, to = [ch EXCEPT ![q] = Append(@, m)]
    PROVE  InTransit(to, ids \cup {m.id})
<1>1. ch \in [Pairs -> Seq(Message)] /\ ch[q] \in Seq(Message)
  BY DEF InTransit
<1>2. /\ to \in [Pairs -> Seq(Message)] /\ to[q] = Append(ch[q], m)
      /\ \A p \in Pairs \ {q} : to[p] = ch[p]
  BY <1>1
<1>3. \A p \in Pairs : \A i \in 1 .. Len(to[p]) :
         \/ i \in 1 .. Len(ch[p]) /\ to[p][i] = ch[p][i]
         \/ p = q /\ i = Len(ch[q]) + 1 /\ to[p][i] = m
  BY <1>1, <1>2
<1>4. \A p \in Pairs : \A i \in 1 .. Len(ch[p]) : ch[p][i].id \in ids /\ OnRoute(p, ch[p][i])
  BY DEF InTransit
<1>5. \A p \in Pairs : \A i \in 1 .. Len(to[p]) :
         to[p][i].id \in ids \cup {m.id} /\ OnRoute(p, to[p][i])
  BY <1>3, <1>4
<1>6. \A q1, q2 \in Pairs : \A i \in 1 .. Len(to[q1]), j \in 1 .. Len(to[q2]) :
         to[q1][i].id = to[q2][j].id => q1 = q2 /\ i = j
  <2> SUFFICES ASSUME NEW q1 \in Pairs, NEW q2 \in Pairs,
                      NEW i \in 1 .. Len(to[q1]), NEW j \in 1 .. Len(to[q2]),
                      to[q1][i].id = to[q2][j].id
               PROVE  q1 = q2 /\ i = j
    OBVIOUS
  <2>1. CASE /\ i \in 1 .. Len(ch[q1]) /\ to[q1][i] = ch[q1][i]
             /\ j \in 1 .. Len(ch[q2]) /\ to[q2][j] = ch[q2][j]
    BY <2>1 DEF InTransit
  <2>2. CASE ~(i \in 1 .. Len(ch[q1]) /\ to[q1][i] = ch[q1][i])
    BY <1>3, <1>4, <2>2
  <2>3. CASE ~(j \in 1 .. Len(ch[q2]) /\ to[q2][j] = ch[q2][j])
    BY <1>3, <1>4, <2>3
  <2> QED
    BY <2>1, <2>2, <2>3
<1> QED
  BY <1>2, <1>5, <1>6 DEF InTransit

----------------------------------------------------------------------------
(* The network *)

\* The transfers that are neither delivered nor lost.
Underway == (1 .. Len(sent)) \ (delivered \cup lost)

\* Every transfer underway is in one message at most.
NetInv ==
    /\ ledger \in Ledgers
    /\ sent \in Seq(Asked) /\ Len(sent) <= MaxTransfers
    /\ delivered \cup lost \subseteq 1 .. Len(sent) /\ delivered \cap lost = {}
    /\ InTransit(channel, Underway)

\* The entries of the bridge's accounts change as if amount were put at one entry.
BridgeChanged(to, led, c, token, who, amount) ==
    \A t \in Tokens, x \in BridgeAccounts :
        to[Home][t][x] = led[Home][t][x] + Gain(c, token, who, amount, Home, t, x)

\* An account of the bridge is a holder and no chain.
LEMMA BridgeAccount ==
    ASSUME NEW x \in BridgeAccounts
    PROVE  x \in Holders /\ x \notin Nat /\ Home \in Nodes
BY PayoutAssumption, NetworkAssumption DEF BridgeAccounts, Holders

\* The bridge's accounts are left alone ...
BridgeSame(to, led) ==
    \A t \in Tokens, x \in BridgeAccounts : to[Home][t][x] = led[Home][t][x]

\* ... by a change at a holder that is none of them.
LEMMA ChangedElsewhere ==
    ASSUME NEW led \in Ledgers, NEW to, NEW c, NEW token, NEW who, NEW amount,
           Changed(to, led, c, token, who, amount), who \notin BridgeAccounts
    PROVE  BridgeSame(to, led)
<1> SUFFICES ASSUME NEW t \in Tokens, NEW x \in BridgeAccounts
             PROVE  to[Home][t][x] = led[Home][t][x]
  BY DEF BridgeSame
<1>1. Home \in Nodes /\ x \in Holders /\ x # who
  BY BridgeAccount
<1>2. to[Home][t][x] = led[Home][t][x] + Gain(c, token, who, amount, Home, t, x)
  BY <1>1, Zenon DEF Changed
<1>3. led[Home][t][x] \in Nat
  BY <1>1 DEF Ledgers
<1> QED
  BY <1>1, <1>2, <1>3 DEF Gain

\* What executed_here does: the sender is debited, and a chain may be credited.
LEMMA ExecutedHere ==
    ASSUME NEW led \in Ledgers, NEW r \in Asked, transfer_error(r.asset, r.dest) = "Ok",
           affordable(led, r), NEW to, to = executed_here(led, r)
    PROVE  /\ to \in Ledgers
           /\ BridgeChanged(to, led, r.chain, TokenOf(r.chain, r.asset), r.sender, 0 - r.amount)
<1> DEFINE c == r.chain
           token == TokenOf(c, r.asset)
           left == debit(led, c, token, r.sender, r.amount)
           p == program(r)
<1>1. r.amount \in Nat /\ p.to \in Nat
  BY Program, TransferAssumption DEF IsProgram
<1>2. led[c][token][r.sender] >= r.amount
  BY DEF affordable
<1>3. left \in Ledgers /\ Changed(left, led, c, token, r.sender, 0 - r.amount)
  BY <1>1, <1>2, Debited
<1>4. BridgeChanged(left, led, c, token, r.sender, 0 - r.amount)
  BY <1>3, BridgeAccount DEF Changed, BridgeChanged
<1>5. CASE p.local = "TransferReserveAsset"
  <2>1. to = credit(left, c, token, p.to, r.amount)
    BY <1>5 DEF executed_here
  <2>2. to \in Ledgers /\ Changed(to, left, c, token, p.to, r.amount)
    BY <1>1, <1>3, <2>1, Credited
  <2>3. BridgeSame(to, left)
    <3> HIDE DEF left, p, token
    <3> QED
      BY <1>1, <1>3, <2>2, BridgeAccount, ChangedElsewhere
  <2> QED
    BY <1>4, <2>2, <2>3 DEF BridgeChanged, BridgeSame
<1>6. CASE p.local # "TransferReserveAsset"
  BY <1>3, <1>4, <1>6 DEF executed_here
<1> QED
  BY <1>5, <1>6

\* The message of a transfer.
LEMMA MessageSent ==
    ASSUME NEW r \in Asked, transfer_error(r.asset, r.dest) = "Ok", NEW id \in Nat,
           NEW p, p = program(r), <<r.chain, p.to>> \in Pairs,
           NEW m, m = message(id, p.begins, reanchored(r.asset, r.chain, p.to), r.amount,
                              p.fees, p.then)
    PROVE  m \in Message /\ m.id = id /\ OnRoute(<<r.chain, p.to>>, m)
<1>1. IsProgram(p, r) /\ r.chain \in Nat /\ r.amount \in Nat
  BY Program, TransferAssumption, NodeIsNat
<1>2. m.asset = seen_from(p.to, chain_of(r.chain, r.asset)) /\ m.asset \in Places
  BY <1>1, SeenChain DEF IsProgram, reanchored, message
<1>3. m \in Message /\ m.id = id
  BY <1>1, <1>2 DEF IsProgram, Message, message
<1>4. OnRoute(<<r.chain, p.to>>, m)
  BY <1>1, <1>2 DEF IsProgram, OnRoute, message, seen_from
<1> QED
  BY <1>3, <1>4

\* A transfer that is sent is underway from then on.
LEMMA TransferOn ==
    ASSUME NetInv, NEW led \in Ledgers, NEW r \in Asked, Len(sent) < MaxTransfers,
           transfer_on(led, r)
    PROVE  NetInv'
<1> DEFINE p == program(r)
           q == <<r.chain, p.to>>
           id == Len(sent) + 1
           m == message(id, p.begins, reanchored(r.asset, r.chain, p.to), r.amount, p.fees, p.then)
<1>1. /\ transfer_error(r.asset, r.dest) = "Ok" /\ affordable(led, r) /\ q \in Pairs
      /\ ledger' = executed_here(led, r) /\ channel' = [channel EXCEPT ![q] = Append(@, m)]
      /\ sent' = Append(sent, r) /\ delivered' = delivered /\ lost' = lost
  BY NetworkAssumption DEF transfer_on, routed, Pairs
<1>2. ledger' \in Ledgers
  BY <1>1, ExecutedHere
<1>3. /\ Len(sent) \in Nat /\ id \in Nat /\ sent' \in Seq(Asked) /\ Len(sent') = id
      /\ Len(sent') <= MaxTransfers
  BY <1>1, NetworkAssumption DEF NetInv
<1>4. m \in Message /\ m.id = id /\ OnRoute(q, m)
  BY <1>1, <1>3, MessageSent
<1>5. delivered \cup lost \subseteq 1 .. Len(sent') /\ delivered \cap lost = {}
  BY <1>3 DEF NetInv
<1>6. id \notin Underway /\ Underway' = Underway \cup {id}
  BY <1>1, <1>3 DEF NetInv, Underway
<1>7. InTransit(channel', Underway')
  <2> HIDE DEF m, q, id
  <2> QED
    BY <1>1, <1>4, <1>6, Pushed, Zenon DEF NetInv
<1> QED
  BY <1>1, <1>2, <1>3, <1>5, <1>7 DEF NetInv

\* A transfer that cannot be sent changes the ledgers alone.
LEMMA TransferUnsentOn ==
    ASSUME NetInv, NEW led \in Ledgers, NEW r \in Asked, transfer_unsent_on(led, r)
    PROVE  NetInv'
<1>1. /\ transfer_error(r.asset, r.dest) = "Ok" /\ affordable(led, r)
      /\ ledger' = executed_here(led, r)
      /\ channel' = channel /\ sent' = sent /\ delivered' = delivered /\ lost' = lost
  BY DEF transfer_unsent_on
<1>2. ledger' \in Ledgers
  BY <1>1, ExecutedHere
<1> QED
  BY <1>1, <1>2 DEF NetInv, Underway

\* What the first instruction of a message does to the ledgers.
LEMMA Taken ==
    ASSUME NetInv, NEW from \in Nodes, NEW to \in Nodes, NEW m \in Message, held(m, from, to),
           NEW led, led = taken(m, from, to)
    PROVE  /\ led \in Ledgers /\ BridgeSame(led, ledger)
           /\ m.begins = "ReserveAssetDeposited" => led = ledger
           /\ m.begins # "ReserveAssetDeposited"
              => Changed(led, ledger, to, TokenOf(to, m.asset), from, 0 - m.amount)
<1>1. ledger \in Ledgers
  BY DEF NetInv
<1>2. CASE m.begins = "ReserveAssetDeposited"
  BY <1>1, <1>2 DEF taken, BridgeSame
<1>3. CASE m.begins # "ReserveAssetDeposited"
  <2>1. led = debit(ledger, to, TokenOf(to, m.asset), from, m.amount)
    BY <1>3 DEF taken
  <2>2. ledger[to][TokenOf(to, m.asset)][from] >= m.amount /\ m.amount \in Nat
    BY <1>3 DEF held, Message
  <2>3. led \in Ledgers /\ Changed(led, ledger, to, TokenOf(to, m.asset), from, 0 - m.amount)
    BY <1>1, <2>1, <2>2, Debited
  <2>4. from \notin BridgeAccounts
    BY NodeIsNat, BridgeAccount
  <2> QED
    BY <1>1, <1>3, <2>3, <2>4, ChangedElsewhere
<1> QED
  BY <1>2, <1>3

\* What is left of a message that paid for its execution.
LEMMA RestOfMessage ==
    ASSUME NEW m \in Message, paid_for(m)
    PROVE  rest(m) \in Nat /\ rest(m) <= m.amount
BY NetworkAssumption DEF paid_for, rest, Message, FeesOffered

\* The outcome of a message that ends on the chain it is executed on.
LEMMA TransferEnds ==
    ASSUME NetInv, NEW from \in Nodes, NEW to \in Nodes, NEW q, q = <<from, to>>,
           channel[q] # <<>>, NEW m, m = Head(channel[q]),
           channel' = popped(from, to), sent' = sent, ledger' \in Ledgers,
           \/ lost' = lost \cup {m.id} /\ delivered' = delivered
           \/ delivered' = delivered \cup {m.id} /\ lost' = lost
    PROVE  NetInv'
<1>1. q \in Pairs /\ channel' = [channel EXCEPT ![q] = Tail(@)]
  BY DEF Pairs, popped
<1>2. m.id \in Underway /\ InTransit(channel', Underway \ {m.id})
  <2>1. InTransit(channel, Underway)
    BY DEF NetInv
  <2> QED
    BY <1>1, <2>1, Popped, Zenon
<1>3. Underway' = Underway \ {m.id}
  BY <1>2 DEF Underway
<1>4. /\ delivered' \cup lost' \subseteq 1 .. Len(sent') /\ delivered' \cap lost' = {}
      /\ sent' \in Seq(Asked) /\ Len(sent') <= MaxTransfers
  BY <1>2 DEF Underway, NetInv
<1> QED
  BY <1>2, <1>3, <1>4 DEF NetInv

\* The message that a reserve chain sends on.
Onward(m, to, d) ==
    message(m.id, "ReserveAssetDeposited", reanchored(m.asset, to, d), rest(m), m.then.fees, m.then.then)

\* It takes the asset of that chain to the recipient, and was told to by a withdrawal.
LEMMA MessageOnward ==
    ASSUME NEW q \in Pairs, NEW m \in Message, OnRoute(q, m),
           m.then.op = "DepositReserveAsset", rest(m) \in Nat, NEW to \in Nodes, NEW d \in Nodes
    PROVE  /\ Onward(m, to, d) \in Message /\ OnRoute(<<to, d>>, Onward(m, to, d))
           /\ m.begins = "WithdrawAsset"
<1> DEFINE onward == Onward(m, to, d)
<1>1. m.then \in Forwards /\ m.asset = HERE /\ m.begins = "WithdrawAsset"
  BY Zenon DEF Message, Deposits, OnRoute
<1>2. onward.asset = seen_from(d, to)
  <2>1. chain_of(to, HERE) = to
    BY Zenon DEF chain_of, HERE, Loc
  <2> QED
    BY <1>1, <2>1 DEF Onward, message, reanchored
<1>3. onward.asset \in Places
  BY <1>2, NodeIsNat, SeenChain, Zenon
<1>4. onward \in Message
  BY <1>1, <1>3 DEF Onward, Message, Forwards, message
<1> QED
  BY <1>1, <1>2, <1>4 DEF Onward, OnRoute, Forwards, message

\* A message that is sent on keeps its transfer underway.
LEMMA MessageForwarded ==
    ASSUME NetInv, NEW from \in Nodes, NEW to \in Nodes, NEW q, q = <<from, to>>,
           channel[q] # <<>>, NEW m, m = Head(channel[q]), m.then.op = "DepositReserveAsset",
           rest(m) \in Nat, NEW d, d = chain_of(to, m.then.dest), <<to, d>> \in Routes,
           NEW onward, onward = Onward(m, to, d),
           channel' = [popped(from, to) EXCEPT ![<<to, d>>] = Append(@, onward)],
           ledger' \in Ledgers, sent' = sent, delivered' = delivered, lost' = lost
    PROVE  NetInv'
<1> DEFINE ch == [channel EXCEPT ![q] = Tail(@)]
           k == <<to, d>>
<1>1. q \in Pairs /\ k \in Pairs /\ d \in Nodes
  BY NetworkAssumption, Zenon DEF Pairs
<1>2. /\ m \in Message /\ m.id \in Underway /\ OnRoute(q, m)
      /\ InTransit(ch, Underway \ {m.id})
  <2>1. InTransit(channel, Underway)
    BY Zenon DEF NetInv
  <2> QED
    BY <1>1, <2>1, Popped, Zenon
<1>3. onward \in Message /\ onward.id = m.id /\ OnRoute(k, onward)
  <2>1. onward \in Message /\ OnRoute(k, onward)
    BY <1>1, <1>2, MessageOnward, Zenon
  <2> QED
    BY <2>1 DEF Onward, message
<1>4. channel' = [ch EXCEPT ![k] = Append(@, onward)]
  BY Zenon DEF popped
<1>5. InTransit(channel', (Underway \ {m.id}) \cup {m.id})
  <2> HIDE DEF ch, k
  <2>1. onward.id \notin Underway \ {m.id}
    BY <1>3, Zenon
  <2>2. InTransit([ch EXCEPT ![k] = Append(@, onward)], (Underway \ {m.id}) \cup {onward.id})
    BY <1>1, <1>2, <1>3, <2>1, Pushed, Zenon
  <2> QED
    BY <1>3, <1>4, <2>2, Zenon
<1>6. Underway' = (Underway \ {m.id}) \cup {m.id}
  BY <1>2, Zenon DEF Underway
<1> QED
  BY <1>5, <1>6, Zenon DEF NetInv

\* The execution of a message keeps the invariant and leaves the bridge's accounts
\* alone.
LEMMA ReceiveStep ==
    ASSUME NetInv, NEW from \in Nodes, NEW to \in Nodes, receive(from, to)
    PROVE  NetInv' /\ BridgeSame(ledger', ledger)
<1> DEFINE q == <<from, to>>
           m == Head(channel[q])
           token == TokenOf(to, m.asset)
           d == chain_of(to, m.then.dest)
<1>1. channel[q] # <<>> /\ q \in Pairs
  BY DEF receive, Pairs
<1>2. m \in Message
  <2>1. InTransit(channel, Underway)
    BY DEF NetInv
  <2> QED
    BY <1>1, <2>1, Popped, Zenon
<1>3. ledger \in Ledgers
  BY DEF NetInv
<1> HIDE DEF m
<1>4. held(m, from, to) => taken(m, from, to) \in Ledgers /\ BridgeSame(taken(m, from, to), ledger)
  BY <1>2, Taken
<1>5. CASE receive_refused(from, to, m)
  <2>1. NetInv'
    BY <1>1, <1>3, <1>5, TransferEnds DEF receive_refused, m
  <2> QED
    BY <1>5, <2>1 DEF receive_refused, BridgeSame
<1>6. CASE receive_unpaid(from, to, m)
  <2>1. ledger' = taken(m, from, to) /\ held(m, from, to)
    BY <1>6 DEF receive_unpaid
  <2>2. NetInv'
    BY <1>1, <1>4, <1>6, <2>1, TransferEnds DEF receive_unpaid, m
  <2> QED
    BY <1>4, <2>1, <2>2
<1>7. ASSUME NEW who, who \notin BridgeAccounts, held(m, from, to), paid_for(m),
             ledger' = credit(taken(m, from, to), to, token, who, rest(m))
      PROVE  ledger' \in Ledgers /\ BridgeSame(ledger', ledger)
  <2>1. rest(m) \in Nat
    BY <1>2, <1>7, RestOfMessage
  <2>2. /\ ledger' \in Ledgers
        /\ Changed(ledger', taken(m, from, to), to, token, who, rest(m))
    BY <1>4, <1>7, <2>1, Credited
  <2>3. BridgeSame(ledger', taken(m, from, to))
    BY <1>4, <1>7, <2>2, ChangedElsewhere
  <2> QED
    BY <1>4, <1>7, <2>2, <2>3 DEF BridgeSame
<1>8. CASE receive_deposit(from, to, m)
  <2>1. m.then.beneficiary \notin BridgeAccounts
    BY <1>2, <1>8 DEF receive_deposit, Message, Deposits, Forwards
  <2>2. ledger' \in Ledgers /\ BridgeSame(ledger', ledger)
    BY <1>7, <1>8, <2>1 DEF receive_deposit
  <2>3. NetInv'
    BY <1>1, <1>8, <2>2, TransferEnds DEF receive_deposit, m
  <2> QED
    BY <2>2, <2>3
<1>9. CASE receive_forward(from, to, m)
  <2>1. m.then \in Forwards
    BY <1>2, <1>9 DEF receive_forward, Message, Deposits
  <2>2. d \in Nat
    BY <2>1, NodeIsNat, ChainOfPlace DEF Forwards
  <2>3. d \notin BridgeAccounts
    BY <2>2, BridgeAccount
  <2>4. ledger' \in Ledgers /\ BridgeSame(ledger', ledger)
    BY <1>7, <1>9, <2>3 DEF receive_forward
  <2>5. CASE <<to, d>> \in Routes
    <3> DEFINE onward == Onward(m, to, d)
    <3>1. /\ channel' = [popped(from, to) EXCEPT ![<<to, d>>] = Append(@, onward)]
          /\ m.then.op = "DepositReserveAsset" /\ paid_for(m)
          /\ sent' = sent /\ delivered' = delivered /\ lost' = lost
      BY <1>9, <2>5 DEF receive_forward, Onward
    <3>2. rest(m) \in Nat
      BY <1>2, <3>1, RestOfMessage
    <3> HIDE DEF onward, d
    <3>3. NetInv'
      BY <1>1, <2>4, <2>5, <3>1, <3>2, MessageForwarded, Zenon DEF m, onward, d
    <3> QED
      BY <2>4, <3>3
  <2>6. CASE <<to, d>> \notin Routes
    <3>1. NetInv'
      BY <1>1, <1>9, <2>4, <2>6, TransferEnds DEF receive_forward, m
    <3> QED
      BY <2>4, <3>1
  <2> QED
    BY <2>5, <2>6
<1> QED
  BY <1>5, <1>6, <1>8, <1>9 DEF receive, m

\* So does a transfer that a user asks for.
LEMMA AskStep ==
    ASSUME NetInv, Ask
    PROVE  NetInv' /\ BridgeSame(ledger', ledger)
<1>1. PICK r \in Requests : transfer(r) \/ transfer_unsent(r)
  BY DEF Ask
<1>2. r \in Asked /\ ledger \in Ledgers /\ Len(sent) < MaxTransfers
  BY DEF Asked, NetInv, Ask
<1>3. NetInv'
  BY <1>1, <1>2, TransferOn, TransferUnsentOn DEF transfer, transfer_unsent
<1>4. /\ transfer_error(r.asset, r.dest) = "Ok" /\ affordable(ledger, r)
      /\ ledger' = executed_here(ledger, r)
  BY <1>1 DEF transfer, transfer_unsent, transfer_on, transfer_unsent_on
<1>5. BridgeChanged(ledger', ledger, r.chain, TokenOf(r.chain, r.asset), r.sender, 0 - r.amount)
  BY <1>2, <1>4, ExecutedHere
<1>6. BridgeSame(ledger', ledger)
  <2> SUFFICES ASSUME NEW t \in Tokens, NEW x \in BridgeAccounts
               PROVE  ledger'[Home][t][x] = ledger[Home][t][x]
    BY DEF BridgeSame
  <2>1. ~(r.chain = Home /\ x = r.sender)
    BY BridgeAccountsAssumption
  <2>2. ledger[Home][t][x] \in Nat
    BY <1>2, BridgeAccount DEF Ledgers
  <2> QED
    BY <1>5, <2>1, <2>2 DEF BridgeChanged, Gain
<1> QED
  BY <1>3, <1>6

----------------------------------------------------------------------------
(* Payouts *)

\* The outcomes after which the vault is short of the payout's amount.
Spent == {"paid", "no account", "sent", "unsent", "outer refused", "xcm refused"}
Ended == [payout : Payouts, outcome : Spent \cup {"withdraw failed", "deposited"}]

\* What an entry of payouts adds to a total.
Counts(token, outcomes) ==
    [e \in Ended |-> IF e.outcome \in outcomes /\ adapter_token(e.payout.asset) = token
                     THEN e.payout.amount ELSE 0]

PayInv == NetInv /\ payouts \in Seq(Ended) /\ StrandedIsRefused /\ VaultPaysOnce

\* The amount of a payout is a number.
LEMMA PayoutAmount ==
    ASSUME NEW p \in Payouts
    PROVE  p.amount \in Nat /\ forwarded(p) \in Asked
<1>1. forwarded(p) \in Asked
  BY DEF Asked
<1>2. forwarded(p).amount \in Nat
  BY <1>1, TransferAssumption
<1> QED
  BY <1>1, <1>2 DEF forwarded

\* A payout that ends adds to the totals of its token and outcome.
LEMMA TotalGrows ==
    ASSUME payouts \in Seq(Ended), NEW e \in Ended, payouts' = Append(payouts, e),
           NEW token, NEW outcomes
    PROVE  /\ total(token, outcomes) \in Int
           /\ total(token, outcomes)' = total(token, outcomes) + Counts(token, outcomes)[e]
<1> DEFINE h == Counts(token, outcomes)
<1>1. h \in [Ended -> Int]
  <2>1. ASSUME NEW x \in Ended
        PROVE  x.payout.amount \in Int
    <3>1. x.payout \in Payouts
      BY Zenon DEF Ended
    <3>2. x.payout.amount \in Nat
      BY <3>1, PayoutAmount, Zenon
    <3> QED
      BY <3>2
  <2> QED
    BY <2>1 DEF Counts
<1>2. ASSUME NEW s \in Seq(Ended)
      PROVE  SumFunction([i \in DOMAIN s |->
                IF s[i].outcome \in outcomes /\ adapter_token(s[i].payout.asset) = token
                THEN s[i].payout.amount ELSE 0]) = SumOver(h, s)
  <2>1. [i \in DOMAIN s |->
            IF s[i].outcome \in outcomes /\ adapter_token(s[i].payout.asset) = token
            THEN s[i].payout.amount ELSE 0] = [i \in 1 .. Len(s) |-> h[s[i]]]
    BY <1>2 DEF Counts
  <2> QED
    BY <2>1, Zenon DEF SumOver
<1>3. total(token, outcomes) = SumOver(h, payouts)
  BY <1>2, Zenon DEF total
<1>4. payouts' \in Seq(Ended)
  OBVIOUS
<1>5. total(token, outcomes)' = SumOver(h, payouts')
  BY <1>2, <1>4, Zenon DEF total
<1> HIDE DEF h
<1>6. SumOver(h, payouts) \in Int
  BY <1>1, SumOverSequence, Zenon
<1>7. SumOver(h, Append(payouts, e)) = SumOver(h, payouts) + h[e]
  BY <1>1, SumOverAppend, Zenon
<1> QED
  BY <1>3, <1>5, <1>6, <1>7 DEF h

\* For the token of payout p the accounts of the bridge have d more in `to` than
\* they have now.
Moves(to, p, d) ==
    \A t \in Tokens, x \in BridgeAccounts :
        to[Home][t][x] = ledger[Home][t][x] + (IF t = adapter_token(p.asset) THEN d[x] ELSE 0)

Gains == [BridgeAccounts -> Int]
NoGain == [x \in BridgeAccounts |-> 0]
Plus(d, who, n) == [x \in BridgeAccounts |-> d[x] + (IF x = who THEN n ELSE 0)]

\* The gains, account by account.
Has(d, v, f, o, x) == d[vault] = v /\ d[treasury] = f /\ d[tmpOuter] = o /\ d[tmpXcm] = x

\* A gain of n on an account of the bridge shows on that account only, and a gain
\* on any other account on none.
LEMMA PlusGains ==
    ASSUME NEW d, NEW v \in Int, NEW f \in Int, NEW o \in Int, NEW x \in Int, Has(d, v, f, o, x),
           NEW n
    PROVE  /\ Has(Plus(d, vault, n), v + n, f, o, x)
           /\ Has(Plus(d, treasury, n), v, f + n, o, x)
           /\ Has(Plus(d, tmpOuter, n), v, f, o + n, x)
           /\ Has(Plus(d, tmpXcm, n), v, f, o, x + n)
           /\ \A who : who \notin BridgeAccounts => Has(Plus(d, who, n), v, f, o, x)
<1>1. ASSUME NEW who
      PROVE  Has(Plus(d, who, n), v + (IF vault = who THEN n ELSE 0),
                 f + (IF treasury = who THEN n ELSE 0),
                 o + (IF tmpOuter = who THEN n ELSE 0), x + (IF tmpXcm = who THEN n ELSE 0))
  <2>1. \A y \in BridgeAccounts : Plus(d, who, n)[y] = d[y] + (IF y = who THEN n ELSE 0)
    BY Zenon DEF Plus
  <2> QED
    BY <2>1, Zenon DEF BridgeAccounts, Has
<1>2. v + 0 = v /\ f + 0 = f /\ o + 0 = o /\ x + 0 = x
  OBVIOUS
<1>3. /\ vault # treasury /\ vault # tmpOuter /\ vault # tmpXcm
      /\ treasury # tmpOuter /\ treasury # tmpXcm /\ tmpOuter # tmpXcm
  BY PayoutAssumption
<1>4. /\ Has(Plus(d, vault, n), v + n, f, o, x) /\ Has(Plus(d, treasury, n), v, f + n, o, x)
  BY <1>1, <1>2, <1>3, Zenon
<1>5. /\ Has(Plus(d, tmpOuter, n), v, f, o + n, x) /\ Has(Plus(d, tmpXcm, n), v, f, o, x + n)
  BY <1>1, <1>2, <1>3, Zenon
<1>6. \A who : who \notin BridgeAccounts => Has(Plus(d, who, n), v, f, o, x)
  <2> SUFFICES ASSUME NEW who, who \notin BridgeAccounts
               PROVE  Has(Plus(d, who, n), v, f, o, x)
    OBVIOUS
  <2>1. vault # who /\ treasury # who /\ tmpOuter # who /\ tmpXcm # who
    BY Zenon DEF BridgeAccounts
  <2> QED
    BY <1>1, <1>2, <2>1, Zenon
<1> QED
  BY <1>4, <1>5, <1>6

\* Another change at one holder.
LEMMA MovesOn ==
    ASSUME NetInv, NEW p, NEW d \in Gains, NEW led, Moves(led, p, d),
           NEW to, NEW who, NEW n \in Int,
           BridgeChanged(to, led, Home, adapter_token(p.asset), who, n)
    PROVE  Plus(d, who, n) \in Gains /\ Moves(to, p, Plus(d, who, n))
<1> DEFINE a == adapter_token(p.asset)
<1>1. Plus(d, who, n) \in Gains
  BY DEF Plus, Gains
<1>2. ASSUME NEW t \in Tokens, NEW x \in BridgeAccounts
      PROVE  to[Home][t][x] = ledger[Home][t][x] + (IF t = a THEN Plus(d, who, n)[x] ELSE 0)
  <2>1. to[Home][t][x] = led[Home][t][x] + (IF t = a /\ x = who THEN n ELSE 0)
    BY DEF BridgeChanged, Gain
  <2>2. led[Home][t][x] = ledger[Home][t][x] + (IF t = a THEN d[x] ELSE 0)
    BY Zenon DEF Moves
  <2>3. ledger[Home][t][x] \in Nat /\ d[x] \in Int
    BY BridgeAccount DEF NetInv, Ledgers, Gains
  <2> HIDE DEF a
  <2> QED
    BY <2>1, <2>2, <2>3 DEF Plus
<1> QED
  BY <1>1, <1>2 DEF Moves

\* A change anywhere, seen from the bridge's accounts.
LEMMA ChangedForBridge ==
    ASSUME NEW to, NEW led, NEW c, NEW token, NEW who, NEW amount,
           Changed(to, led, c, token, who, amount)
    PROVE  BridgeChanged(to, led, c, token, who, amount)
BY BridgeAccount, Zenon DEF Changed, BridgeChanged

\* What a payout with an outcome leaves on the bridge's accounts, if the fee goes
\* to the treasury.
Settled(d, p, outcome, fee) ==
    /\ d[vault] = 0 - (IF outcome \in Spent THEN p.amount ELSE fee)
    /\ d[treasury] = fee
    /\ d[tmpOuter] = IF outcome = "outer refused" THEN p.amount ELSE 0
    /\ d[tmpXcm] = IF outcome = "xcm refused" THEN p.amount ELSE 0

\* The gains of a payout, account by account, settle it.
LEMMA HasSettled ==
    ASSUME NEW d, NEW p, NEW outcome, NEW fee, NEW v, NEW o, NEW x, Has(d, v, fee, o, x),
           v = 0 - (IF outcome \in Spent THEN p.amount ELSE fee),
           o = IF outcome = "outer refused" THEN p.amount ELSE 0,
           x = IF outcome = "xcm refused" THEN p.amount ELSE 0
    PROVE  Settled(d, p, outcome, fee)
BY Zenon DEF Has, Settled

\* Such a payout keeps the bridge's books.
LEMMA BooksKept ==
    ASSUME PayInv, NEW p \in Payouts, NEW outcome, [payout |-> p, outcome |-> outcome] \in Ended,
           NEW fee \in Nat, outcome \in Spent => fee = 0,
           NEW d \in Gains, Moves(ledger', p, d), Settled(d, p, outcome, fee),
           NetInv', ended(p, outcome)
    PROVE  PayInv'
<1> DEFINE e == [payout |-> p, outcome |-> outcome]
           a == adapter_token(p.asset)
<1>1. payouts' = Append(payouts, e) /\ payouts \in Seq(Ended) /\ payouts' \in Seq(Ended)
  BY DEF ended, PayInv
<1>2. ASSUME NEW t, NEW outcomes
      PROVE  /\ total(t, outcomes) \in Int
             /\ total(t, outcomes)' = total(t, outcomes)
                  + (IF outcome \in outcomes /\ a = t THEN p.amount ELSE 0)
  <2>1. /\ total(t, outcomes) \in Int
        /\ total(t, outcomes)' = total(t, outcomes) + Counts(t, outcomes)[e]
    BY <1>1, TotalGrows, Zenon
  <2>2. Counts(t, outcomes)[e] = IF outcome \in outcomes /\ a = t THEN p.amount ELSE 0
    BY DEF Counts
  <2> QED
    BY <2>1, <2>2, Zenon
<1>3. p.amount \in Nat
  BY PayoutAmount
<1>4. ASSUME NEW t \in Tokens, NEW x \in BridgeAccounts
      PROVE  /\ ledger[Home][t][x] \in Nat /\ Endowed[Home][t][x] \in Nat
             /\ ledger'[Home][t][x] = ledger[Home][t][x] + (IF t = a THEN d[x] ELSE 0)
  <2>1. x \in Holders /\ Home \in Nodes
    BY BridgeAccount
  <2>2. ledger \in Ledgers /\ Endowed \in Ledgers
    BY TransferAssumption, Zenon DEF PayInv, NetInv, Ledgers
  <2>3. ledger[Home][t][x] \in Nat /\ Endowed[Home][t][x] \in Nat
    BY <2>1, <2>2 DEF Ledgers
  <2> QED
    BY <2>3, Zenon DEF Moves
<1> HIDE DEF a
<1>5. StrandedIsRefused'
  <2> SUFFICES ASSUME NEW t \in Tokens
               PROVE  /\ ledger'[Home][t][tmpOuter] = total(t, {"outer refused"})'
                      /\ ledger'[Home][t][tmpXcm] = total(t, {"xcm refused"})'
    BY Zenon DEF StrandedIsRefused
  <2>1. /\ ledger[Home][t][tmpOuter] = total(t, {"outer refused"})
        /\ ledger[Home][t][tmpXcm] = total(t, {"xcm refused"})
    BY Zenon DEF StrandedIsRefused, PayInv
  <2>2. ASSUME NEW o
        PROVE  /\ total(t, {o}) \in Int
               /\ total(t, {o})' = total(t, {o}) + (IF outcome = o /\ a = t THEN p.amount ELSE 0)
    <3>1. outcome \in {o} <=> outcome = o
      OBVIOUS
    <3> QED
      BY <1>2, <3>1, Zenon
  <2>3. /\ ledger'[Home][t][tmpOuter] = ledger[Home][t][tmpOuter] + (IF t = a THEN d[tmpOuter] ELSE 0)
        /\ ledger'[Home][t][tmpXcm] = ledger[Home][t][tmpXcm] + (IF t = a THEN d[tmpXcm] ELSE 0)
    BY <1>4, Zenon DEF BridgeAccounts
  <2> QED
    BY <1>3, <2>1, <2>2, <2>3, Zenon DEF Settled
<1>6. VaultPaysOnce'
  <2> SUFFICES ASSUME NEW t \in Tokens
               PROVE  Endowed[Home][t][vault] - ledger'[Home][t][vault]
                        = total(t, Spent)' + ledger'[Home][t][treasury]
    BY Zenon DEF VaultPaysOnce, Spent
  <2>1. Endowed[Home][t][vault] - ledger[Home][t][vault]
          = total(t, Spent) + ledger[Home][t][treasury]
    BY Zenon DEF VaultPaysOnce, PayInv, Spent
  <2>2. /\ Endowed[Home][t][vault] \in Nat
        /\ ledger[Home][t][vault] \in Nat /\ ledger[Home][t][treasury] \in Nat
        /\ ledger'[Home][t][vault] = ledger[Home][t][vault] + (IF t = a THEN d[vault] ELSE 0)
        /\ ledger'[Home][t][treasury] = ledger[Home][t][treasury] + (IF t = a THEN d[treasury] ELSE 0)
    BY <1>4, Zenon DEF BridgeAccounts
  <2>3. /\ total(t, Spent) \in Int
        /\ total(t, Spent)' = total(t, Spent)
                              + (IF outcome \in Spent /\ a = t THEN p.amount ELSE 0)
    BY <1>2, Zenon
  <2> DEFINE paid == IF outcome \in Spent /\ a = t THEN p.amount ELSE 0
             charged == IF t = a THEN fee ELSE 0
  <2>4. paid \in Int /\ charged \in Int
    BY <1>3
  <2>5. (IF t = a THEN d[vault] ELSE 0) = 0 - (paid + charged)
    <3>1. d[vault] = 0 - (IF outcome \in Spent THEN p.amount ELSE fee)
      BY Zenon DEF Settled
    <3> QED
      BY <1>3, <3>1
  <2>6. (IF t = a THEN d[treasury] ELSE 0) = charged
    BY Zenon DEF Settled
  <2> HIDE DEF paid, charged
  <2>7. Endowed[Home][t][vault] - (ledger[Home][t][vault] + (0 - (paid + charged)))
          = (total(t, Spent) + paid) + (ledger[Home][t][treasury] + charged)
    <3>1. /\ Endowed[Home][t][vault] \in Int /\ ledger[Home][t][vault] \in Int
          /\ ledger[Home][t][treasury] \in Int /\ total(t, Spent) \in Int
      <4>1. \A n \in Nat : n \in Int
        OBVIOUS
      <4> QED
        BY <2>2, <2>3, <4>1, Zenon
    <3> DEFINE had == Endowed[Home][t][vault]
               v == ledger[Home][t][vault]
               spent == total(t, Spent)
               fees == ledger[Home][t][treasury]
    <3>2. had \in Int /\ v \in Int /\ spent \in Int /\ fees \in Int /\ had - v = spent + fees
      BY <2>1, <3>1, Zenon
    <3>3. had - (v + (0 - (paid + charged))) = (spent + paid) + (fees + charged)
      <4> HIDE DEF had, v, spent, fees
      <4> QED
        BY <2>4, <3>2
    <3> QED
      BY <3>3, Zenon
  <2> QED
    BY <2>2, <2>3, <2>5, <2>6, <2>7, Zenon DEF paid
<1> QED
  BY <1>1, <1>5, <1>6 DEF PayInv

\* The ledgers after withdraw_asset: the vault has paid.
FromVault(p) == Plus(NoGain, vault, 0 - p.amount)

\* withdraw_asset moves the vault and no other account of the bridge.
LEMMA FromVaultGains ==
    ASSUME NEW p \in Payouts
    PROVE  p.amount \in Int /\ 0 - p.amount \in Int /\ Has(FromVault(p), 0 - p.amount, 0, 0, 0)
<1>1. Has(NoGain, 0, 0, 0, 0)
  BY DEF NoGain, BridgeAccounts, Has
<1>2. p.amount \in Int /\ 0 - p.amount \in Int /\ 0 + (0 - p.amount) = 0 - p.amount /\ 0 \in Int
  BY PayoutAmount
<1>3. Has(FromVault(p), 0 + (0 - p.amount), 0, 0, 0)
  BY <1>1, <1>2, PlusGains, Zenon DEF FromVault
<1> QED
  BY <1>2, <1>3, Zenon

\* A withdrawal that can_withdraw allows leaves the ledgers well formed.
LEMMA Withdrawn ==
    ASSUME NetInv, NEW p \in Payouts, can_withdraw(p), NEW led, led = withdrawn(p)
    PROVE  /\ led \in Ledgers /\ FromVault(p) \in Gains /\ Moves(led, p, FromVault(p))
           /\ Changed(led, ledger, Home, adapter_token(p.asset), vault, 0 - p.amount)
<1> DEFINE token == adapter_token(p.asset)
<1>1. /\ token # None /\ is_reserve(p.asset) /\ ledger[Home][token][vault] >= p.amount
      /\ led = debit(ledger, Home, token, vault, p.amount)
  BY BridgeAccountsAssumption DEF can_withdraw, withdrawn
<1>2. p.amount \in Nat /\ ledger \in Ledgers /\ 0 - p.amount \in Int
  BY PayoutAmount DEF NetInv
<1>3. led \in Ledgers /\ Changed(led, ledger, Home, token, vault, 0 - p.amount)
  BY <1>1, <1>2, Debited
<1>4. NoGain \in Gains /\ Moves(ledger, p, NoGain)
  <2>1. \A t \in Tokens, x \in BridgeAccounts : ledger[Home][t][x] \in Nat
    BY <1>2, BridgeAccount DEF Ledgers
  <2> QED
    BY <2>1 DEF NoGain, Gains, Moves
<1>5. BridgeChanged(led, ledger, Home, token, vault, 0 - p.amount)
  BY <1>3, ChangedForBridge
<1> QED
  BY <1>2, <1>3, <1>4, <1>5, MovesOn, Zenon DEF FromVault

\* The ledgers after deposit_asset: someone has got the amount.
LEMMA Deposited ==
    ASSUME NetInv, NEW p \in Payouts, can_withdraw(p), NEW to, to = deposited(withdrawn(p), p),
           NEW who, who = IF recipient_world(p.who) = "local" THEN account_of(p.who)
                                                              ELSE tmp_account(p.who)
    PROVE  /\ to \in Ledgers /\ Plus(FromVault(p), who, p.amount) \in Gains
           /\ Moves(to, p, Plus(FromVault(p), who, p.amount))
           /\ Changed(to, withdrawn(p), Home, adapter_token(p.asset), who, p.amount)
<1> DEFINE token == adapter_token(p.asset)
           led == withdrawn(p)
<1>1. led \in Ledgers /\ FromVault(p) \in Gains /\ Moves(led, p, FromVault(p))
  BY Withdrawn
<1>2. p.amount \in Nat /\ p.amount \in Int
  BY PayoutAmount
<1>3. to = credit(led, Home, token, who, p.amount)
  BY DEF deposited
<1>4. to \in Ledgers /\ Changed(to, led, Home, token, who, p.amount)
  BY <1>1, <1>2, <1>3, Credited
<1>5. BridgeChanged(to, led, Home, token, who, p.amount)
  BY <1>4, ChangedForBridge
<1> QED
  BY <1>1, <1>2, <1>4, <1>5, MovesOn, Zenon

\* Outcomes in which nothing is sent.
LEMMA OutcomeUnsent ==
    ASSUME PayInv, NEW p \in Payouts, NEW outcome, outcome \in Spent, ended(p, outcome),
           NEW d \in Gains, Moves(ledger', p, d), Settled(d, p, outcome, 0), ledger' \in Ledgers,
           UNCHANGED <<channel, sent, delivered, lost>>
    PROVE  PayInv'
<1>1. NetInv'
  BY DEF PayInv, NetInv, Underway
<1>2. [payout |-> p, outcome |-> outcome] \in Ended
  BY Zenon DEF Ended
<1> QED
  BY <1>1, <1>2, BooksKept

\* A payout to an account of this chain, or to none.
LEMMA PayLocal ==
    ASSUME PayInv, NEW p \in Payouts, pay_local(p) \/ no_account(p)
    PROVE  PayInv'
<1>1. NetInv /\ can_withdraw(p) /\ recipient_world(p.who) = "local" /\ p.amount \in Nat
  BY PayoutAmount, Zenon DEF PayInv, pay_local, no_account
<1>2. CASE pay_local(p)
  <2> DEFINE who == account_of(p.who)
             d == Plus(FromVault(p), who, p.amount)
  <2>1. who \notin BridgeAccounts
    <3>1. p.who.who \notin BridgeAccounts
      <4>1. forwarded(p).dest.who \notin BridgeAccounts
        BY PayoutAmount, BridgeAccountsAssumption, Zenon
      <4> QED
        BY <4>1 DEF forwarded
    <3>2. p.who.interior = <<"Parachain">> => p.who.first \notin BridgeAccounts
      BY BridgeAccountsAssumption, BridgeAccount
    <3>3. who # None
      BY <1>2 DEF pay_local
    <3> QED
      BY <3>1, <3>2, <3>3 DEF account_of
  <2>2. ledger' \in Ledgers /\ d \in Gains /\ Moves(ledger', p, d)
    BY <1>1, <1>2, Deposited DEF pay_local
  <2>3. Settled(d, p, "paid", 0)
    <3>1. 0 \in Int
      OBVIOUS
    <3>2. Has(d, 0 - p.amount, 0, 0, 0)
      BY <2>1, <3>1, FromVaultGains, PlusGains, Zenon
    <3> HIDE DEF d
    <3> QED
      BY <3>2, HasSettled, Zenon DEF Spent
  <2> HIDE DEF d
  <2> QED
    BY <1>2, <2>2, <2>3, OutcomeUnsent, Zenon DEF pay_local, Spent
<1>3. CASE no_account(p)
  <2> DEFINE d == FromVault(p)
  <2>1. ledger' \in Ledgers /\ d \in Gains /\ Moves(ledger', p, d)
    BY <1>1, <1>3, Withdrawn, Zenon DEF no_account
  <2>2. Settled(d, p, "no account", 0)
    BY FromVaultGains, HasSettled DEF Spent
  <2> HIDE DEF d
  <2> QED
    BY <1>3, <2>1, <2>2, OutcomeUnsent, Zenon DEF no_account, Spent
<1> QED
  BY <1>2, <1>3

\* The temporary account of a payout's world, and what deposit_asset put there.
LEMMA InTemporaryAccount ==
    ASSUME NetInv, NEW p \in Payouts, can_withdraw(p), NEW to, to = deposited(withdrawn(p), p),
           recipient_world(p.who) # "local", NEW tmp, tmp = tmp_account(p.who)
    PROVE  /\ tmp \in {tmpOuter, tmpXcm} /\ tmp \in BridgeAccounts /\ p.amount \in Nat
           /\ to \in Ledgers /\ Plus(FromVault(p), tmp, p.amount) \in Gains
           /\ Moves(to, p, Plus(FromVault(p), tmp, p.amount))
           /\ adapter_token(p.asset) \in Tokens => to[Home][adapter_token(p.asset)][tmp] >= p.amount
<1> DEFINE token == adapter_token(p.asset)
           led == withdrawn(p)
<1>1. tmp \in {tmpOuter, tmpXcm} /\ tmp \in BridgeAccounts /\ p.amount \in Nat
  BY PayoutAmount DEF tmp_account, BridgeAccounts
<1>2. /\ to \in Ledgers /\ Plus(FromVault(p), tmp, p.amount) \in Gains
      /\ Moves(to, p, Plus(FromVault(p), tmp, p.amount))
      /\ Changed(to, led, Home, token, tmp, p.amount)
  BY Deposited
<1>3. led \in Ledgers
  BY Withdrawn
<1>4. ASSUME token \in Tokens
      PROVE  to[Home][token][tmp] >= p.amount
  <2>1. tmp \in Holders /\ Home \in Nodes
    BY <1>1, BridgeAccount
  <2>2. led[Home][token][tmp] \in Nat
    BY <1>3, <1>4, <2>1 DEF Ledgers
  <2>3. to[Home][token][tmp] = led[Home][token][tmp] + Gain(Home, token, tmp, p.amount, Home, token, tmp)
    BY <1>2, <1>4, <2>1, Zenon DEF Changed
  <2> HIDE DEF token, led
  <2> QED
    BY <1>1, <2>2, <2>3 DEF Gain
<1> QED
  BY <1>1, <1>2, <1>4

\* A payout that the bridge pallet refuses to take as a deposit, and one that
\* sygma-xcm-bridge refuses to hand on, stay in the temporary account.
LEMMA Refused ==
    ASSUME PayInv, NEW p \in Payouts, outer_refused(p) \/ xcm_refused(p)
    PROVE  PayInv'
<1> DEFINE tmp == tmp_account(p.who)
           d == Plus(FromVault(p), tmp, p.amount)
           outcome == IF outer_refused(p) THEN "outer refused" ELSE "xcm refused"
<1>1. /\ NetInv /\ can_withdraw(p) /\ ledger' = deposited(withdrawn(p), p) /\ ended(p, outcome)
      /\ UNCHANGED <<channel, sent, delivered, lost>> /\ recipient_world(p.who) # "local"
  BY Zenon DEF PayInv, outer_refused, xcm_refused
<1>2. ledger' \in Ledgers /\ d \in Gains /\ Moves(ledger', p, d) /\ p.amount \in Nat
  BY <1>1, InTemporaryAccount, Zenon
<1>3. tmp = IF outcome = "outer refused" THEN tmpOuter ELSE tmpXcm
  BY Zenon DEF tmp_account, outer_refused, xcm_refused
<1>4. outcome \in Spent /\ outcome \in {"outer refused", "xcm refused"}
  BY DEF Spent
<1> HIDE DEF outcome, tmp
<1>5. Settled(d, p, outcome, 0)
  <2>1. tmp \in {tmpOuter, tmpXcm}
    BY <1>3, Zenon
  <2>2. 0 \in Int /\ p.amount \in Int /\ 0 + p.amount = p.amount
    BY <1>2
  <2>3. CASE outcome = "outer refused"
    <3>1. Has(d, 0 - p.amount, 0, 0 + p.amount, 0)
      BY <1>3, <2>2, <2>3, FromVaultGains, PlusGains, Zenon
    <3> HIDE DEF d
    <3>2. Has(d, 0 - p.amount, 0, p.amount, 0)
      BY <2>2, <3>1, Zenon
    <3> QED
      BY <1>4, <2>3, <3>2, HasSettled
  <2>4. CASE outcome = "xcm refused"
    <3>1. Has(d, 0 - p.amount, 0, 0, 0 + p.amount)
      BY <1>3, <2>2, <2>4, FromVaultGains, PlusGains, Zenon
    <3> HIDE DEF d
    <3>2. Has(d, 0 - p.amount, 0, 0, p.amount)
      BY <2>2, <3>1, Zenon
    <3> QED
      BY <1>4, <2>4, <3>2, HasSettled
  <2> QED
    BY <1>4, <2>3, <2>4
<1> HIDE DEF d
<1> QED
  BY <1>1, <1>2, <1>4, <1>5, OutcomeUnsent, Zenon

\* A credit on the bridge's chain.
LEMMA CreditMoves ==
    ASSUME NetInv, NEW p, NEW d \in Gains, NEW led \in Ledgers, Moves(led, p, d),
           NEW who, NEW n \in Nat, NEW to, to = credit(led, Home, adapter_token(p.asset), who, n)
    PROVE  to \in Ledgers /\ Plus(d, who, n) \in Gains /\ Moves(to, p, Plus(d, who, n))
<1>1. to \in Ledgers /\ Changed(to, led, Home, adapter_token(p.asset), who, n) /\ n \in Int
  BY Credited
<1>2. BridgeChanged(to, led, Home, adapter_token(p.asset), who, n)
  BY <1>1, ChangedForBridge
<1> QED
  BY <1>1, <1>2, MovesOn, Zenon

\* A payout that is deposited into the bridge pallet: the fee is all that is left.
LEMMA ForwardOuter ==
    ASSUME PayInv, NEW p \in Payouts, forward_outer(p)
    PROVE  PayInv'
<1> DEFINE fee == OuterFee(p.who, p.asset)
           token == adapter_token(p.asset)
           there == deposited(withdrawn(p), p)
           emptied == debit(there, Home, token, tmpOuter, p.amount)
           charged == credit(emptied, Home, token, treasury, fee)
           d1 == Plus(FromVault(p), tmpOuter, p.amount)
           d2 == Plus(d1, tmpOuter, 0 - p.amount)
           d3 == Plus(d2, treasury, fee)
           d4 == Plus(d3, vault, p.amount - fee)
<1>1. /\ NetInv /\ can_withdraw(p) /\ recipient_world(p.who) = "outer"
      /\ fee # None /\ p.amount > fee /\ ended(p, "deposited")
      /\ UNCHANGED <<channel, sent, delivered, lost>>
      /\ ledger' = IF is_reserve(p.asset) THEN credit(charged, Home, token, vault, p.amount - fee)
                   ELSE charged
  BY DEF PayInv, forward_outer
<1>2. tmp_account(p.who) = tmpOuter
  BY <1>1 DEF tmp_account
<1>3. /\ there \in Ledgers /\ d1 \in Gains /\ Moves(there, p, d1) /\ p.amount \in Nat
      /\ token \in Tokens => there[Home][token][tmpOuter] >= p.amount
  BY <1>1, <1>2, InTemporaryAccount, Zenon
<1>4. fee \in Nat /\ p.amount - fee \in Nat /\ 0 - p.amount \in Int
  <2>1. fee \in Nat
    BY <1>1, BridgeAccountsAssumption, Zenon
  <2> HIDE DEF fee
  <2>2. p.amount > fee /\ p.amount \in Nat
    BY <1>1, <1>3, Zenon
  <2> QED
    BY <2>1, <2>2
<1>5. ledger' = credit(charged, Home, token, vault, p.amount - fee)
  BY <1>1, BridgeAccountsAssumption, Zenon DEF can_withdraw
<1>6. emptied \in Ledgers /\ d2 \in Gains /\ Moves(emptied, p, d2)
  <2> HIDE DEF there, token, d1, fee
  <2>1. emptied \in Ledgers /\ Changed(emptied, there, Home, token, tmpOuter, 0 - p.amount)
    BY <1>3, Debited
  <2>2. BridgeChanged(emptied, there, Home, token, tmpOuter, 0 - p.amount)
    BY <2>1, ChangedForBridge, Zenon
  <2> QED
    BY <1>1, <1>3, <1>4, <2>1, <2>2, MovesOn, Zenon DEF token
<1> HIDE DEF emptied, fee, d1, there
<1>7. charged \in Ledgers /\ d3 \in Gains /\ Moves(charged, p, d3)
  BY <1>1, <1>4, <1>6, CreditMoves, Zenon
<1> HIDE DEF charged
<1>8. ledger' \in Ledgers /\ d4 \in Gains /\ Moves(ledger', p, d4)
  BY <1>1, <1>4, <1>5, <1>7, CreditMoves, Zenon
<1>9. Settled(d4, p, "deposited", fee)
  <2>1. /\ 0 \in Int /\ p.amount \in Int /\ 0 - p.amount \in Int /\ p.amount - fee \in Int /\ fee \in Int
        /\ 0 + p.amount = p.amount /\ p.amount + (0 - p.amount) = 0 /\ 0 + fee = fee
        /\ (0 - p.amount) + (p.amount - fee) = 0 - fee
    BY <1>3, <1>4
  <2>2. Has(d1, 0 - p.amount, 0, 0 + p.amount, 0)
    BY <2>1, FromVaultGains, PlusGains, Zenon DEF d1
  <2>3. Has(d2, 0 - p.amount, 0, p.amount + (0 - p.amount), 0)
    BY <2>1, <2>2, PlusGains, Zenon
  <2> HIDE DEF d2
  <2>4. Has(d3, 0 - p.amount, 0 + fee, 0, 0)
    BY <2>1, <2>3, PlusGains, Zenon
  <2> HIDE DEF d3
  <2>5. Has(d4, (0 - p.amount) + (p.amount - fee), fee, 0, 0)
    BY <2>1, <2>4, PlusGains, Zenon
  <2> HIDE DEF d4
  <2>6. Has(d4, 0 - fee, fee, 0, 0)
    BY <2>1, <2>5, Zenon
  <2> QED
    BY <2>6, HasSettled DEF Spent
<1>10. NetInv'
  BY <1>1, <1>8 DEF NetInv, Underway
<1>11. [payout |-> p, outcome |-> "deposited"] \in Ended /\ "deposited" \notin Spent
  BY DEF Ended, Spent
<1> HIDE DEF d4
<1> QED
  BY <1>1, <1>4, <1>8, <1>9, <1>10, <1>11, BooksKept, Zenon

\* A payout that is handed to sygma-xcm-bridge leaves the temporary account again.
LEMMA ForwardXcm ==
    ASSUME PayInv, NEW p \in Payouts, Len(sent) < MaxTransfers, forward_xcm(p) \/ xcm_unsent(p)
    PROVE  PayInv'
<1> DEFINE there == deposited(withdrawn(p), p)
           r == forwarded(p)
           token == adapter_token(p.asset)
           d1 == Plus(FromVault(p), tmpXcm, p.amount)
           d2 == Plus(d1, tmpXcm, 0 - p.amount)
           outcome == IF forward_xcm(p) THEN "sent" ELSE "unsent"
<1>1. /\ NetInv /\ can_withdraw(p) /\ recipient_world(p.who) = "xcm" /\ ended(p, outcome)
      /\ transfer_on(there, r) \/ transfer_unsent_on(there, r)
  BY DEF PayInv, forward_xcm, xcm_unsent
<1>2. tmp_account(p.who) = tmpXcm
  BY <1>1 DEF tmp_account
<1>3. there \in Ledgers /\ d1 \in Gains /\ Moves(there, p, d1) /\ p.amount \in Nat
  BY <1>1, <1>2, InTemporaryAccount, Zenon
<1>4. r \in Asked /\ r.chain = Home /\ r.asset = p.asset /\ r.sender = tmpXcm /\ r.amount = p.amount
  BY <1>2, PayoutAmount DEF forwarded
<1> HIDE DEF there, r
<1>5. NetInv'
  BY <1>1, <1>3, <1>4, TransferOn, TransferUnsentOn, Zenon
<1>6. /\ transfer_error(r.asset, r.dest) = "Ok" /\ affordable(there, r)
      /\ ledger' = executed_here(there, r)
  BY <1>1 DEF transfer_on, transfer_unsent_on
<1>7. TokenOf(Home, p.asset) = token
  BY <1>1, <1>4, <1>6, BridgeAccountsAssumption, Zenon DEF affordable, can_withdraw
<1>8. BridgeChanged(ledger', there, Home, token, tmpXcm, 0 - p.amount) /\ 0 - p.amount \in Int
  <2>1. BridgeChanged(ledger', there, r.chain, TokenOf(r.chain, r.asset), r.sender, 0 - r.amount)
    BY <1>3, <1>4, <1>6, ExecutedHere, Zenon
  <2>2. 0 - p.amount \in Int
    BY <1>3
  <2> QED
    BY <1>4, <1>7, <2>1, <2>2, Zenon
<1> HIDE DEF d1
<1>9. d2 \in Gains /\ Moves(ledger', p, d2)
  BY <1>1, <1>3, <1>8, MovesOn, Zenon
<1>10. outcome \in Spent /\ outcome \notin {"outer refused", "xcm refused"}
       /\ [payout |-> p, outcome |-> outcome] \in Ended
  BY DEF Spent, Ended
<1> HIDE DEF outcome
<1>11. Settled(d2, p, outcome, 0)
  <2>1. /\ 0 \in Int /\ p.amount \in Int /\ 0 - p.amount \in Int
        /\ 0 + p.amount = p.amount /\ p.amount + (0 - p.amount) = 0
    BY <1>3
  <2>2. Has(d1, 0 - p.amount, 0, 0, 0 + p.amount)
    BY <2>1, FromVaultGains, PlusGains, Zenon DEF d1
  <2>3. Has(d2, 0 - p.amount, 0, 0, p.amount + (0 - p.amount))
    BY <2>1, <2>2, PlusGains, Zenon
  <2> HIDE DEF d2
  <2>4. Has(d2, 0 - p.amount, 0, 0, 0)
    BY <2>1, <2>3, Zenon
  <2> QED
    BY <1>10, <2>4, HasSettled
<1> HIDE DEF d2
<1> QED
  BY <1>1, <1>5, <1>9, <1>10, <1>11, BooksKept, Zenon

\* A payout that does not get past withdraw_asset.
LEMMA WithdrawFails ==
    ASSUME PayInv, NEW p \in Payouts, withdraw_fails(p)
    PROVE  PayInv'
<1>1. ended(p, "withdraw failed") /\ UNCHANGED netVars
  BY Zenon DEF withdraw_fails
<1>2. NetInv' /\ ledger' = ledger /\ NetInv
  BY <1>1, Zenon DEF netVars, PayInv, NetInv, Underway
<1>3. NoGain \in Gains /\ Moves(ledger', p, NoGain)
  <2>1. \A t \in Tokens, x \in BridgeAccounts : ledger[Home][t][x] \in Nat
    BY <1>2, BridgeAccount DEF NetInv, Ledgers
  <2> QED
    BY <1>2, <2>1 DEF NoGain, Gains, Moves
<1>4. Settled(NoGain, p, "withdraw failed", 0)
  BY DEF Settled, NoGain, Spent, BridgeAccounts
<1>5. [payout |-> p, outcome |-> "withdraw failed"] \in Ended
  BY DEF Ended
<1> QED
  BY <1>1, <1>2, <1>3, <1>4, <1>5, BooksKept, Zenon

\* A step of the network that no payout takes part in.
LEMMA OthersStep ==
    ASSUME PayInv, NetInv', BridgeSame(ledger', ledger), payouts' = payouts
    PROVE  PayInv'
<1>1. \A t \in Tokens : /\ ledger'[Home][t][vault] = ledger[Home][t][vault]
                        /\ ledger'[Home][t][treasury] = ledger[Home][t][treasury]
                        /\ ledger'[Home][t][tmpOuter] = ledger[Home][t][tmpOuter]
                        /\ ledger'[Home][t][tmpXcm] = ledger[Home][t][tmpXcm]
  BY Zenon DEF BridgeSame, BridgeAccounts
<1>2. ASSUME NEW t, NEW outcomes
      PROVE  total(t, outcomes)' = total(t, outcomes)
  BY DEF total
<1> QED
  BY <1>1, <1>2, Zenon DEF PayInv, StrandedIsRefused, VaultPaysOnce

\* At the start nothing is sent and nothing is paid.
LEMMA PayInitial ==
    ASSUME PayoutInit
    PROVE  PayInv
<1>1. /\ ledger = Endowed /\ channel = [q \in Pairs |-> <<>>] /\ sent = <<>>
      /\ delivered = {} /\ lost = {} /\ payouts = <<>>
  BY DEF PayoutInit, NetInit
<1>2. ledger \in Ledgers
  BY <1>1, TransferAssumption DEF Ledgers
<1>3. InTransit(channel, Underway)
  BY <1>1 DEF InTransit
<1>4. NetInv
  BY <1>1, <1>2, <1>3, NetworkAssumption DEF NetInv
<1>5. ASSUME NEW t, NEW outcomes
      PROVE  total(t, outcomes) = 0
  <2>1. DOMAIN payouts = {}
    BY <1>1
  <2> QED
    BY <2>1, SumOfNone DEF total
<1>6. ASSUME NEW t \in Tokens
      PROVE  /\ ledger[Home][t][treasury] = 0 /\ ledger[Home][t][tmpOuter] = 0
             /\ ledger[Home][t][tmpXcm] = 0
             /\ Endowed[Home][t][vault] - ledger[Home][t][vault] = 0
  <2>1. treasury # vault /\ tmpOuter # vault /\ tmpXcm # vault
    BY PayoutAssumption
  <2>2. /\ treasury \in BridgeAccounts /\ tmpOuter \in BridgeAccounts /\ tmpXcm \in BridgeAccounts
        /\ vault \in BridgeAccounts
    BY DEF BridgeAccounts
  <2>3. \A x \in BridgeAccounts \ {vault} : Endowed[Home][t][x] = 0
    BY BridgeAccountsAssumption, Zenon
  <2>4. Endowed[Home][t][vault] \in Nat
    BY <2>2, BridgeAccount, TransferAssumption
  <2> QED
    BY <1>1, <2>1, <2>2, <2>3, <2>4
<1>7. StrandedIsRefused
  BY <1>5, <1>6, Zenon DEF StrandedIsRefused
<1>8. VaultPaysOnce
  <2> SUFFICES ASSUME NEW t \in Tokens
               PROVE  Endowed[Home][t][vault] - ledger[Home][t][vault]
                        = total(t, Spent) + ledger[Home][t][treasury]
    BY Zenon DEF VaultPaysOnce, Spent
  <2>1. total(t, Spent) = 0
    BY <1>5, Zenon
  <2> QED
    BY <1>6, <2>1
<1>9. payouts \in Seq(Ended)
  BY <1>1
<1> QED
  BY <1>4, <1>7, <1>8, <1>9 DEF PayInv

\* Every step keeps the invariant.
LEMMA PayStep ==
    ASSUME PayInv, [PayoutNext]_payoutVars
    PROVE  PayInv'
<1>1. ASSUME NEW p \in Payouts, pay(p), Len(sent) < MaxTransfers
      PROVE  PayInv'
  BY <1>1, WithdrawFails, PayLocal, ForwardOuter, Refused, ForwardXcm DEF pay
<1>2. ASSUME Ask, UNCHANGED payouts
      PROVE  PayInv'
  BY <1>2, AskStep, OthersStep DEF PayInv
<1>3. ASSUME NEW q \in Pairs, receive(q[1], q[2]), UNCHANGED payouts
      PROVE  PayInv'
  <2>1. q[1] \in Nodes /\ q[2] \in Nodes
    BY DEF Pairs
  <2> QED
    BY <1>3, <2>1, ReceiveStep, OthersStep DEF PayInv
<1>4. CASE UNCHANGED payoutVars
  BY <1>4, Zenon DEF payoutVars, netVars, PayInv, NetInv, Underway, StrandedIsRefused, VaultPaysOnce, total
<1> QED
  BY <1>1, <1>2, <1>3, <1>4 DEF PayoutNext

\* The invariant behind the theorems about payouts.
LEMMA PayInvariant == PayoutSpec => []PayInv
<1>1. PayoutInit => PayInv
  BY PayInitial
<1>2. PayInv /\ [PayoutNext]_payoutVars => PayInv'
  BY PayStep
<1> QED
  BY <1>1, <1>2, PTL DEF PayoutSpec

\* No ledger is overdrawn, and a transfer has one outcome at most: transfer and
\* the executor look at a balance before they debit it, and a message is in one
\* channel at a time.
THEOREM TransfersTyped == PayoutSpec => []NetTypeOK
<1>1. PayInv => NetTypeOK
  BY DEF PayInv, NetInv, NetTypeOK, Ledgers, InTransit
<1> QED
  BY <1>1, PayInvariant, PTL

\* deposit_asset leaves in a temporary account exactly what the forwarder was
\* refused, each world in its own.
THEOREM NothingElseIsStranded == PayoutSpec => []StrandedIsRefused
<1>1. PayInv => StrandedIsRefused
  BY DEF PayInv
<1> QED
  BY <1>1, PayInvariant, PTL

\* The vault is short of the payouts that got past withdraw_asset, and of the
\* fees of those that were deposited again.
THEOREM VaultIsAccountedFor == PayoutSpec => []VaultPaysOnce
<1>1. PayInv => VaultPaysOnce
  BY DEF PayInv
<1> QED
  BY <1>1, PayInvariant, PTL

============================================================================
