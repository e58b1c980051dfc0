-------------------------- MODULE XcmBackingProofs --------------------------
(***************************************************************************)
(* The derivatives of a network stay backed, for any network, any set of   *)
(* transfers and payouts and any configuration that meets the assumptions  *)
(* of XcmNetwork and XcmAssetTransactor.                                   *)
(***************************************************************************)
EXTENDS XcmProofs

----------------------------------------------------------------------------
(* Backing *)

\* The ledgers of a chain's own asset and of its derivative on chain c.
Own(r) == TokenOf(r, HERE)
Derivative(c, r) == TokenOf(c, seen_from(c, r))

\* Chain c has a derivative of the asset of chain r.
Linked(c, r) == c \in Nodes /\ r \in Nodes /\ c # r /\ Own(r) # None /\ Derivative(c, r) # None

\* What a message on its way to chain `to` adds to carried.
Weight(to, begins, r) ==
    [m \in Message |-> IF m.begins = begins /\ chain_of(to, m.asset) = r THEN m.amount ELSE 0]

\* What a channel carries of the asset of chain r.
Carried(ch, from, to, begins, r) == SumOver(Weight(to, begins, r), ch[<<from, to>>])

\* The same for a message in channel q.
Share(from, to, begins, r, q, m) == IF q = <<from, to>> THEN Weight(to, begins, r)[m] ELSE 0

\* Message m is put into channel q, and taken from it.
Pushes(ch2, ch, q, m) == ch2 = [ch EXCEPT ![q] = Append(@, m)]
Pops(ch2, ch, q, m) == ch[q] # <<>> /\ m = Head(ch[q]) /\ ch2 = [ch EXCEPT ![q] = Tail(@)]

\* Message m of channel q is in what ch2 carries and not in what ch does.
Apart(ch2, ch, from, to, begins, r, q, m) ==
    Carried(ch2, from, to, begins, r)
      = Carried(ch, from, to, begins, r) + Share(from, to, begins, r, q, m)

\* What is on its way to chain c and what left it for r.
Borne(ch, c, r) ==
    Carried(ch, r, c, "ReserveAssetDeposited", r) + Carried(ch, c, r, "WithdrawAsset", r)

\* By how much the reserve of chain c on chain r exceeds what it must back.
Slack(led, ch, c, r) ==
    led[r][Own(r)][c] - (SumFunction(led[c][Derivative(c, r)]) + Borne(ch, c, r))

\* The slack of one state exceeds that of another by n.
Exceeds(led2, ch2, led, ch, c, r, n) == Slack(led2, ch2, c, r) = Slack(led, ch, c, r) + n

\* What the sum of a row of the ledgers gains from a change of one entry.
RowGain(k, t, who, n, c, d) == IF k = c /\ t = d /\ who \in Holders THEN n ELSE 0

\* What a change of one entry does to the slack.
Worth(c, r, k, t, who, n) ==
    Gain(k, t, who, n, r, Own(r), c) - RowGain(k, t, who, n, c, Derivative(c, r))

\* What a message in channel q takes from the slack.
Load(c, r, q, m) ==
    IF \/ q = <<r, c>> /\ m.begins = "ReserveAssetDeposited"
       \/ q = <<c, r>> /\ m.begins = "WithdrawAsset"
    THEN m.amount ELSE 0

\* The two ledgers of a link.
LEMMA LinkTokens ==
    ASSUME NEW c, NEW r, Linked(c, r)
    PROVE  /\ c \in Nodes /\ r \in Nodes /\ c # r /\ c \in Nat /\ r \in Nat /\ c \in Holders
           /\ Own(r) \in Tokens /\ Derivative(c, r) \in Tokens
           /\ <<r, c>> \in Pairs /\ <<c, r>> \in Pairs
<1>1. Own(r) = TokenOf(r, seen_from(r, r))
  BY DEF Own, seen_from
<1>2. Own(r) \in Tokens \cup {None} /\ Derivative(c, r) \in Tokens \cup {None}
  BY <1>1, BackingAssumption, Zenon DEF Linked, Derivative
<1> QED
  BY <1>2, NodeIsNat DEF Linked, Holders, Pairs

\* The sum of a row of the ledgers is a number.
LEMMA RowIsInt ==
    ASSUME NEW led \in Ledgers, NEW c \in Nodes, NEW d \in Tokens
    PROVE  IsFiniteSet(Holders) /\ led[c][d] \in [Holders -> Int] /\ SumFunction(led[c][d]) \in Int
<1>1. IsFiniteSet(Holders)
  BY BackingAssumption, FS_Union, Zenon DEF Holders
<1>2. led[c][d] \in [Holders -> Nat]
  BY Zenon DEF Ledgers
<1>3. led[c][d] \in [Holders -> Int]
  BY <1>2
<1> QED
  BY <1>1, <1>3, SumIsInt, Zenon

\* It changes with an entry.
LEMMA RowChanged ==
    ASSUME NEW led \in Ledgers, NEW to \in Ledgers, NEW k, NEW t, NEW who, NEW n \in Int,
           Changed(to, led, k, t, who, n), NEW c \in Nodes, NEW d \in Tokens
    PROVE  SumFunction(to[c][d]) = SumFunction(led[c][d]) + RowGain(k, t, who, n, c, d)
<1> DEFINE f == led[c][d]
           g == to[c][d]
<1>1. /\ f \in [Holders -> Int] /\ g \in [Holders -> Int] /\ IsFiniteSet(Holders)
      /\ SumFunction(f) \in Int
  BY RowIsInt, Zenon
<1>2. \A h \in Holders : g[h] = f[h] + Gain(k, t, who, n, c, d, h)
  BY Zenon DEF Changed
<1> HIDE DEF f, g
<1>3. CASE k = c /\ t = d /\ who \in Holders
  <2>1. g[who] = f[who] + n /\ (\A h \in Holders \ {who} : g[h] = f[h]) /\ f[who] \in Int
    BY <1>1, <1>2, <1>3 DEF Gain
  <2>2. SumFunction(g) = SumFunction(f) - f[who] + g[who]
    BY <1>1, <1>3, <2>1, SumUpdated
  <2>3. SumFunction(g) = SumFunction(f) + n
    BY <1>1, <2>1, <2>2
  <2> QED
    BY <1>3, <2>3, Zenon DEF f, g, RowGain
<1>4. CASE ~(k = c /\ t = d /\ who \in Holders)
  <2>1. \A h \in Holders : g[h] = f[h]
    BY <1>1, <1>2, <1>4 DEF Gain
  <2>2. g = f
    BY <1>1, <2>1
  <2>3. SumFunction(g) = SumFunction(f) + 0
    BY <1>1, <2>2
  <2> QED
    BY <1>4, <2>3, Zenon DEF f, g, RowGain
<1> QED
  BY <1>3, <1>4

\* What the channels carry is a number.
LEMMA CarriedIsInt ==
    ASSUME NEW ch \in [Pairs -> Seq(Message)], NEW from, NEW to, <<from, to>> \in Pairs,
           NEW begins, NEW r
    PROVE  /\ Weight(to, begins, r) \in [Message -> Int] /\ ch[<<from, to>>] \in Seq(Message)
           /\ Carried(ch, from, to, begins, r) \in Int
<1>1. Weight(to, begins, r) \in [Message -> Int]
  BY DEF Weight, Message
<1>2. ch[<<from, to>>] \in Seq(Message)
  BY Zenon
<1> QED
  BY <1>1, <1>2, SumOverSequence, Zenon DEF Carried

\* The slack is a number.
LEMMA SlackIsInt ==
    ASSUME NEW led \in Ledgers, NEW ch \in [Pairs -> Seq(Message)], NEW c, NEW r, Linked(c, r)
    PROVE  /\ Slack(led, ch, c, r) \in Int /\ led[r][Own(r)][c] \in Int
           /\ SumFunction(led[c][Derivative(c, r)]) \in Int /\ Borne(ch, c, r) \in Int
<1>0. c \in Nodes /\ r \in Nodes /\ c \in Holders /\ Own(r) \in Tokens /\ Derivative(c, r) \in Tokens
  BY LinkTokens, Zenon
<1>1. led[r][Own(r)][c] \in Int
  BY <1>0 DEF Ledgers
<1>2. SumFunction(led[c][Derivative(c, r)]) \in Int
  BY <1>0, RowIsInt, Zenon
<1>3. /\ Carried(ch, r, c, "ReserveAssetDeposited", r) \in Int
      /\ Carried(ch, c, r, "WithdrawAsset", r) \in Int
  BY LinkTokens, CarriedIsInt, Zenon
<1>4. Borne(ch, c, r) \in Int
  BY <1>3 DEF Borne
<1> QED
  BY <1>1, <1>2, <1>4 DEF Slack

\* A change of the ledgers.
LEMMA SlackChanged ==
    ASSUME NEW led \in Ledgers, NEW to \in Ledgers, NEW ch \in [Pairs -> Seq(Message)],
           NEW k, NEW t, NEW who, NEW n \in Int, Changed(to, led, k, t, who, n),
           NEW c, NEW r, Linked(c, r)
    PROVE  Exceeds(to, ch, led, ch, c, r, Worth(c, r, k, t, who, n))
<1> DEFINE a == SumFunction(led[c][Derivative(c, r)])
           b == SumFunction(to[c][Derivative(c, r)])
           x == led[r][Own(r)][c]
           y == to[r][Own(r)][c]
           p == Borne(ch, c, r)
           i == Gain(k, t, who, n, r, Own(r), c)
           j == RowGain(k, t, who, n, c, Derivative(c, r))
<1>0. c \in Nodes /\ r \in Nodes /\ c \in Holders /\ Own(r) \in Tokens /\ Derivative(c, r) \in Tokens
  BY LinkTokens, Zenon
<1>1. a \in Int /\ b = a + j
  <2>1. a \in Int
    BY <1>0, RowIsInt, Zenon
  <2>2. b = a + j
    <3> DEFINE d == Derivative(c, r)
    <3>1. d \in Tokens /\ c \in Nodes
      BY <1>0, Zenon
    <3> HIDE DEF d
    <3>2. SumFunction(to[c][d]) = SumFunction(led[c][d]) + RowGain(k, t, who, n, c, d)
      BY <3>1, RowChanged
    <3> QED
      BY <3>2, Zenon DEF d
  <2> QED
    BY <2>1, <2>2, Zenon
<1>2. x \in Int /\ y = x + i
  <2>1. y = x + i
    BY <1>0, Zenon DEF Changed
  <2>2. x \in Int
    BY <1>0 DEF Ledgers
  <2> QED
    BY <2>1, <2>2, Zenon
<1>3. p \in Int
  BY SlackIsInt, Zenon
<1>4. i \in Int /\ j \in Int
  BY DEF Gain, RowGain
<1> HIDE DEF a, b, x, y, p, i, j
<1>5. y - (b + p) = (x - (a + p)) + (i - j)
  BY <1>1, <1>2, <1>3, <1>4
<1> QED
  BY <1>5, Zenon DEF a, b, x, y, p, i, j, Slack, Worth, Exceeds

\* The weight of a message in the two sums of a link.
LEMMA MessageWeight ==
    ASSUME NEW c, NEW r, Linked(c, r), NEW q \in Pairs, NEW m \in Message, OnRoute(q, m)
    PROVE  /\ q = <<r, c>> => Weight(c, "ReserveAssetDeposited", r)[m] = Load(c, r, q, m)
           /\ q = <<c, r>> => Weight(r, "WithdrawAsset", r)[m] = Load(c, r, q, m)
           /\ q \notin {<<r, c>>, <<c, r>>} => Load(c, r, q, m) = 0
           /\ Load(c, r, q, m) \in Nat
<1>0. c \in Nat /\ r \in Nat /\ c # r /\ m.amount \in Nat
      /\ m.begins \in {"ReserveAssetDeposited", "WithdrawAsset"}
  BY LinkTokens DEF Message
<1>1. ASSUME q = <<r, c>>
      PROVE  Weight(c, "ReserveAssetDeposited", r)[m] = Load(c, r, q, m)
  <2>1. m.begins = "ReserveAssetDeposited" => chain_of(c, m.asset) = r
    <3>1. m.begins = "ReserveAssetDeposited" => m.asset = seen_from(c, r)
      BY <1>1 DEF OnRoute
    <3> QED
      BY <1>0, <3>1, SeenChain
  <2>2. q # <<c, r>>
    BY <1>0, <1>1
  <2> QED
    BY <1>1, <2>1, <2>2, Zenon DEF Weight, Load
<1>2. ASSUME q = <<c, r>>
      PROVE  Weight(r, "WithdrawAsset", r)[m] = Load(c, r, q, m)
  <2>1. m.begins = "WithdrawAsset" => chain_of(r, m.asset) = r
    BY <1>0 DEF OnRoute, chain_of, HERE, Loc
  <2>2. q # <<r, c>>
    BY <1>0, <1>2
  <2> QED
    BY <1>2, <2>1, <2>2, Zenon DEF Weight, Load
<1>3. Load(c, r, q, m) \in Nat
  BY <1>0 DEF Load
<1>4. q \notin {<<r, c>>, <<c, r>>} => Load(c, r, q, m) = 0
  BY Zenon DEF Load
<1> QED
  BY <1>1, <1>2, <1>3, <1>4, Zenon

\* What the channels carry changes with a message that is put into one.
LEMMA CarriedPushed ==
    ASSUME NEW ch \in [Pairs -> Seq(Message)], NEW q \in Pairs, NEW m \in Message,
           NEW ch2, Pushes(ch2, ch, q, m),
           NEW from, NEW to, <<from, to>> \in Pairs, NEW begins, NEW r
    PROVE  Apart(ch2, ch, from, to, begins, r, q, m)
<1> DEFINE h == Weight(to, begins, r)
<1>1. h \in [Message -> Int] /\ ch[<<from, to>>] \in Seq(Message) /\ Carried(ch, from, to, begins, r) \in Int
  BY CarriedIsInt, Zenon
<1>2. CASE q = <<from, to>>
  <2>1. ch2[<<from, to>>] = Append(ch[<<from, to>>], m)
    BY <1>2 DEF Pushes
  <2> HIDE DEF h
  <2>2. SumOver(h, Append(ch[<<from, to>>], m)) = SumOver(h, ch[<<from, to>>]) + h[m]
    BY <1>1, SumOverAppend, Zenon
  <2> QED
    BY <1>2, <2>1, <2>2, Zenon DEF Apart, Carried, Share, h
<1>3. CASE q # <<from, to>>
  <2>1. ch2[<<from, to>>] = ch[<<from, to>>]
    BY <1>3 DEF Pushes
  <2>2. Carried(ch, from, to, begins, r) + 0 = Carried(ch, from, to, begins, r)
    BY <1>1
  <2> QED
    BY <1>3, <2>1, <2>2, Zenon DEF Apart, Carried, Share
<1> QED
  BY <1>2, <1>3

\* And with one that is taken from it.
LEMMA CarriedPopped ==
    ASSUME NEW ch \in [Pairs -> Seq(Message)], NEW q \in Pairs, NEW m,
           NEW ch2, Pops(ch2, ch, q, m),
           NEW from, NEW to, <<from, to>> \in Pairs, NEW begins, NEW r
    PROVE  Apart(ch, ch2, from, to, begins, r, q, m)
<1> DEFINE h == Weight(to, begins, r)
<1>1. h \in [Message -> Int] /\ ch[<<from, to>>] \in Seq(Message) /\ Carried(ch, from, to, begins, r) \in Int
  BY CarriedIsInt, Zenon
<1>2. CASE q = <<from, to>>
  <2> DEFINE s == ch[<<from, to>>]
  <2>1. ch2[<<from, to>>] = Tail(s) /\ s # <<>> /\ Head(s) \in Message /\ Tail(s) \in Seq(Message)
    BY <1>1, <1>2 DEF Pops
  <2> HIDE DEF h
  <2>2. SumOver(h, s) = h[Head(s)] + SumOver(h, Tail(s))
    BY <1>1, <2>1, SumOverTail, Zenon
  <2>3. SumOver(h, Tail(s)) \in Int /\ h[Head(s)] \in Int
    <3>1. SumOver(h, Tail(s)) \in Int
      BY <1>1, <2>1, SumOverSequence, Zenon
    <3>2. h[Head(s)] \in Int
      BY <1>1, <2>1
    <3> QED
      BY <3>1, <3>2
  <2> HIDE DEF s
  <2>4. SumOver(h, s) = SumOver(h, Tail(s)) + h[Head(s)]
    BY <2>2, <2>3
  <2> QED
    BY <1>2, <2>1, <2>4, Zenon DEF Apart, Carried, Share, Pops, h, s
<1>3. CASE q # <<from, to>>
  <2>1. ch2[<<from, to>>] = ch[<<from, to>>]
    BY <1>3 DEF Pops
  <2>2. Carried(ch, from, to, begins, r) + 0 = Carried(ch, from, to, begins, r)
    BY <1>1
  <2> QED
    BY <1>3, <2>1, <2>2, Zenon DEF Apart, Carried, Share
<1> QED
  BY <1>2, <1>3

\* The two sums of a link, when a message is in one of the channels.
LEMMA BorneWeight ==
    ASSUME NEW c, NEW r, Linked(c, r), NEW q \in Pairs, NEW m \in Message, OnRoute(q, m)
    PROVE  /\ Share(r, c, "ReserveAssetDeposited", r, q, m) \in Int
           /\ Share(c, r, "WithdrawAsset", r, q, m) \in Int
           /\ Share(r, c, "ReserveAssetDeposited", r, q, m) + Share(c, r, "WithdrawAsset", r, q, m)
                = Load(c, r, q, m)
           /\ Load(c, r, q, m) \in Nat
<1> DEFINE n == Load(c, r, q, m)
           i == Weight(c, "ReserveAssetDeposited", r)[m]
           j == Weight(r, "WithdrawAsset", r)[m]
<1>1. <<r, c>> # <<c, r>>
  BY LinkTokens
<1>2. /\ q = <<r, c>> => i = n
      /\ q = <<c, r>> => j = n
      /\ n \in Nat
      /\ q \notin {<<r, c>>, <<c, r>>} => n = 0
  BY MessageWeight, Zenon
<1> HIDE DEF n, i, j
<1>3. /\ (IF q = <<r, c>> THEN i ELSE 0) \in Int /\ (IF q = <<c, r>> THEN j ELSE 0) \in Int
      /\ (IF q = <<r, c>> THEN i ELSE 0) + (IF q = <<c, r>> THEN j ELSE 0) = n
  BY <1>1, <1>2
<1> QED
  BY <1>2, <1>3 DEF n, i, j, Share

\* A message is put into a channel.
LEMMA SlackPushed ==
    ASSUME NEW led \in Ledgers, NEW ch \in [Pairs -> Seq(Message)], NEW q \in Pairs,
           NEW m \in Message, OnRoute(q, m), NEW ch2, Pushes(ch2, ch, q, m),
           NEW c, NEW r, Linked(c, r)
    PROVE  Exceeds(led, ch, led, ch2, c, r, Load(c, r, q, m))
<1> DEFINE a == SumFunction(led[c][Derivative(c, r)])
           x == led[r][Own(r)][c]
           n == Load(c, r, q, m)
           p == Carried(ch, r, c, "ReserveAssetDeposited", r)
           w == Carried(ch, c, r, "WithdrawAsset", r)
           p2 == Carried(ch2, r, c, "ReserveAssetDeposited", r)
           w2 == Carried(ch2, c, r, "WithdrawAsset", r)
           i == Share(r, c, "ReserveAssetDeposited", r, q, m)
           j == Share(c, r, "WithdrawAsset", r, q, m)
<1>1. <<r, c>> \in Pairs /\ <<c, r>> \in Pairs
  BY LinkTokens, Zenon
<1>2. p \in Int /\ w \in Int
  BY <1>1, CarriedIsInt, Zenon
<1>3. p2 = p + i /\ w2 = w + j
  <2>1. /\ Apart(ch2, ch, r, c, "ReserveAssetDeposited", r, q, m)
        /\ Apart(ch2, ch, c, r, "WithdrawAsset", r, q, m)
    BY <1>1, CarriedPushed, Zenon
  <2> QED
    BY <2>1, Zenon DEF Apart
<1>4. i \in Int /\ j \in Int /\ i + j = n
  BY BorneWeight, Zenon
<1>5. a \in Int /\ x \in Int
  BY SlackIsInt, Zenon
<1>6. Slack(led, ch2, c, r) = x - (a + (p2 + w2)) /\ Slack(led, ch, c, r) = x - (a + (p + w))
  BY Zenon DEF Slack, Borne
<1> HIDE DEF a, x, n, p, w, p2, w2, i, j
<1>7. x - (a + (p + w)) = (x - (a + (p2 + w2))) + n
  BY <1>2, <1>3, <1>4, <1>5
<1> QED
  BY <1>6, <1>7, Zenon DEF n, Exceeds

\* A message is taken from a channel.
LEMMA SlackPopped ==
    ASSUME NEW led \in Ledgers, NEW ch \in [Pairs -> Seq(Message)], NEW q \in Pairs,
           NEW m \in Message, OnRoute(q, m), NEW ch2, Pops(ch2, ch, q, m), NEW c, NEW r, Linked(c, r)
    PROVE  Exceeds(led, ch2, led, ch, c, r, Load(c, r, q, m))
<1> DEFINE a == SumFunction(led[c][Derivative(c, r)])
           x == led[r][Own(r)][c]
           n == Load(c, r, q, m)
           p == Carried(ch, r, c, "ReserveAssetDeposited", r)
           w == Carried(ch, c, r, "WithdrawAsset", r)
           p2 == Carried(ch2, r, c, "ReserveAssetDeposited", r)
           w2 == Carried(ch2, c, r, "WithdrawAsset", r)
           i == Share(r, c, "ReserveAssetDeposited", r, q, m)
           j == Share(c, r, "WithdrawAsset", r, q, m)
<1>1. <<r, c>> \in Pairs /\ <<c, r>> \in Pairs
  BY LinkTokens, Zenon
<1>2. ch2 \in [Pairs -> Seq(Message)]
  <2>1. ch[q] \in Seq(Message) /\ ch[q] # <<>>
    BY Zenon DEF Pops
  <2>2. Tail(ch[q]) \in Seq(Message)
    BY <2>1
  <2> QED
    BY <2>2, Zenon DEF Pops
<1>3. p2 \in Int /\ w2 \in Int
  BY <1>1, <1>2, CarriedIsInt, Zenon
<1>4. p = p2 + i /\ w = w2 + j
  <2>1. /\ Apart(ch, ch2, r, c, "ReserveAssetDeposited", r, q, m)
        /\ Apart(ch, ch2, c, r, "WithdrawAsset", r, q, m)
    BY <1>1, CarriedPopped, Zenon
  <2> QED
    BY <2>1, Zenon DEF Apart
<1>5. i \in Int /\ j \in Int /\ i + j = n
  BY BorneWeight, Zenon
<1>6. a \in Int /\ x \in Int
  BY SlackIsInt, Zenon
<1>7. Slack(led, ch2, c, r) = x - (a + (p2 + w2)) /\ Slack(led, ch, c, r) = x - (a + (p + w))
  BY Zenon DEF Slack, Borne
<1> HIDE DEF a, x, n, p, w, p2, w2, i, j
<1>8. x - (a + (p2 + w2)) = (x - (a + (p + w))) + n
  BY <1>3, <1>4, <1>5, <1>6
<1> QED
  BY <1>7, <1>8, Zenon DEF n, Exceeds

----------------------------------------------------------------------------
(* What the steps do to the slack *)

\* An account is no chain.
LEMMA AccountIsNoChain ==
    ASSUME NEW x \in Accounts, NEW c, NEW r, Linked(c, r)
    PROVE  x # c /\ x \in Holders /\ c # r
BY LinkTokens, NetworkAssumption DEF Holders

\* What a change of an entry does to the slack is a number.
LEMMA WorthIsInt ==
    ASSUME NEW c, NEW r, NEW k, NEW t, NEW who, NEW n \in Int
    PROVE  Worth(c, r, k, t, who, n) \in Int
BY DEF Worth, Gain, RowGain

\* What an account gives away backs what another holder of the ledger gets.
LEMMA MoveWorth ==
    ASSUME NEW c, NEW r, Linked(c, r), NEW k, NEW t, NEW x \in Accounts, NEW y, NEW n \in Nat
    PROVE  /\ Worth(c, r, k, t, x, 0 - n) >= 0
           /\ Worth(c, r, k, t, x, 0 - n) + Worth(c, r, k, t, y, n) >= 0
<1>1. x # c /\ x \in Holders
  BY AccountIsNoChain
<1> DEFINE d == Derivative(c, r)
<1> HIDE DEF d
<1>2. Worth(c, r, k, t, x, 0 - n) = IF k = c /\ t = d THEN n ELSE 0
  BY <1>1 DEF Worth, Gain, RowGain, d
<1>3. Worth(c, r, k, t, y, n) >= IF k = c /\ t = d THEN 0 - n ELSE 0
  BY DEF Worth, Gain, RowGain, d
<1>4. Worth(c, r, k, t, y, n) \in Int
  BY WorthIsInt
<1> QED
  BY <1>2, <1>3, <1>4

\* TransferReserveAsset covers the message that announces it.
LEMMA ReserveMoved ==
    ASSUME NEW c, NEW r, Linked(c, r), NEW k, NEW d, NEW x \in Accounts, NEW n \in Nat,
           NEW m, m.begins = "ReserveAssetDeposited", m.amount = n
    PROVE  Worth(c, r, k, Own(k), x, 0 - n) + Worth(c, r, k, Own(k), d, n) >= Load(c, r, <<k, d>>, m)
<1>1. x # c /\ x \in Holders /\ c # r
  BY AccountIsNoChain
<1>2. CASE k = r /\ d = c
  <2>1. Worth(c, r, k, Own(k), x, 0 - n) = 0
    BY <1>1, <1>2 DEF Worth, Gain, RowGain
  <2>2. Worth(c, r, k, Own(k), d, n) = n
    BY <1>1, <1>2 DEF Worth, Gain, RowGain
  <2>3. Load(c, r, <<k, d>>, m) = n
    BY <1>2 DEF Load
  <2> QED
    BY <2>1, <2>2, <2>3
<1>3. CASE ~(k = r /\ d = c)
  <2>1. Load(c, r, <<k, d>>, m) = 0
    BY <1>3 DEF Load
  <2> QED
    BY <2>1, MoveWorth
<1> QED
  BY <1>2, <1>3

\* WithdrawAsset on the sender's chain covers the message to the reserve chain.
LEMMA DerivativeBurnt ==
    ASSUME NEW c, NEW r, Linked(c, r), NEW k, NEW d, NEW x \in Accounts, NEW n \in Nat,
           NEW m, m.begins = "WithdrawAsset", m.amount = n
    PROVE  Worth(c, r, k, Derivative(k, d), x, 0 - n) >= Load(c, r, <<k, d>>, m)
<1>1. x # c /\ x \in Holders /\ c # r
  BY AccountIsNoChain
<1>2. CASE k = c /\ d = r
  <2>1. Worth(c, r, k, Derivative(k, d), x, 0 - n) = n
    BY <1>1, <1>2 DEF Worth, Gain, RowGain
  <2>2. Load(c, r, <<k, d>>, m) = n
    BY <1>2 DEF Load
  <2> QED
    BY <2>1, <2>2
<1>3. CASE ~(k = c /\ d = r)
  <2>1. Load(c, r, <<k, d>>, m) = 0
    BY <1>3 DEF Load
  <2> QED
    BY <2>1, MoveWorth
<1> QED
  BY <1>2, <1>3

\* A message that announces a reserve deposit covers what is deposited for it: the
\* derivative on whose ledger that is, is the one the message stands for.
LEMMA DerivativeIssued ==
    ASSUME DistinctLedgers, NEW c, NEW r, Linked(c, r), NEW from \in Nodes, NEW to \in Nodes,
           NEW x \in Accounts, NEW n \in Nat, Derivative(to, from) # None,
           NEW m, m.begins = "ReserveAssetDeposited", m.amount \in Nat, n <= m.amount
    PROVE  Worth(c, r, to, Derivative(to, from), x, n) + Load(c, r, <<from, to>>, m) >= 0
<1>1. x # c /\ x \in Holders /\ c # r /\ c \in Nodes /\ r \in Nodes
  BY AccountIsNoChain, LinkTokens
<1>2. CASE to = c /\ Derivative(to, from) = Derivative(c, r)
  <2>1. from = r
    BY <1>1, <1>2, Zenon DEF DistinctLedgers, Derivative
  <2>2. Worth(c, r, to, Derivative(to, from), x, n) = 0 - n
    BY <1>1, <1>2 DEF Worth, Gain, RowGain
  <2>3. Load(c, r, <<from, to>>, m) = m.amount
    BY <1>2, <2>1 DEF Load
  <2> QED
    BY <2>2, <2>3
<1>3. CASE ~(to = c /\ Derivative(to, from) = Derivative(c, r))
  <2>1. Worth(c, r, to, Derivative(to, from), x, n) = 0
    BY <1>1, <1>3 DEF Worth, Gain, RowGain
  <2>2. Load(c, r, <<from, to>>, m) \in Nat
    BY DEF Load
  <2> QED
    BY <2>1, <2>2
<1> QED
  BY <1>2, <1>3

\* A message that withdraws from the sovereign account of the chain it comes from
\* covers that, and something is left over if the chain keeps its own asset and
\* its derivative on one ledger.
Surplus(c, r, to, n) == IF to = c /\ Own(to) = Derivative(c, r) THEN n ELSE 0

\* Such a withdrawal on arrival gives exactly that surplus.
LEMMA SovereignDebited ==
    ASSUME NEW c, NEW r, Linked(c, r), NEW from \in Nodes, NEW to \in Nodes,
           NEW m, m.begins = "WithdrawAsset", m.amount \in Nat,
           NEW i, i = Worth(c, r, to, Own(to), from, 0 - m.amount)
    PROVE  i + Load(c, r, <<from, to>>, m) = Surplus(c, r, to, m.amount)
<1>1. c # r /\ from \in Holders
  BY LinkTokens DEF Holders
<1>2. CASE from = c /\ to = r
  <2>1. i = 0 - m.amount
    BY <1>1, <1>2 DEF Worth, Gain, RowGain
  <2>2. Load(c, r, <<from, to>>, m) = m.amount
    BY <1>2 DEF Load
  <2> QED
    BY <1>1, <1>2, <2>1, <2>2 DEF Surplus
<1>3. CASE ~(from = c /\ to = r)
  <2>1. i = Surplus(c, r, to, m.amount)
    BY <1>1, <1>3 DEF Worth, Gain, RowGain, Surplus
  <2>2. Load(c, r, <<from, to>>, m) = 0
    BY <1>3 DEF Load
  <2>3. Surplus(c, r, to, m.amount) \in Nat
    BY DEF Surplus
  <2> QED
    BY <2>1, <2>2, <2>3
<1> QED
  BY <1>2, <1>3

\* What is left of the amount is deposited, at an account or at the sovereign
\* account of another chain: that covers the message sent on to it.
LEMMA SovereignCredited ==
    ASSUME NEW c, NEW r, Linked(c, r), NEW to, NEW y, NEW n \in Nat,
           NEW m, m.begins = "ReserveAssetDeposited", m.amount = n,
           NEW j, j = Worth(c, r, to, Own(to), y, n)
    PROVE  j + Surplus(c, r, to, n) >= Load(c, r, <<to, y>>, m)
<1>1. c # r
  BY LinkTokens
<1>2. CASE to = r /\ y = c
  <2>1. j = n /\ Surplus(c, r, to, n) = 0
    BY <1>1, <1>2 DEF Worth, Gain, RowGain, Surplus
  <2>2. Load(c, r, <<to, y>>, m) = n
    BY <1>2 DEF Load
  <2> QED
    BY <2>1, <2>2
<1>3. CASE ~(to = r /\ y = c)
  <2>1. j >= 0 - Surplus(c, r, to, n)
    BY <1>3 DEF Worth, Gain, RowGain, Surplus
  <2>2. Load(c, r, <<to, y>>, m) = 0
    BY <1>3 DEF Load
  <2>3. Surplus(c, r, to, n) \in Nat /\ j \in Int
    BY WorthIsInt DEF Surplus
  <2> QED
    BY <2>1, <2>2, <2>3
<1> QED
  BY <1>2, <1>3

\* No reserve falls short of what it backs by more than before.
Safer(led2, ch2, led, ch) ==
    \A c, r \in Nodes : Linked(c, r) => Slack(led2, ch2, c, r) >= Slack(led, ch, c, r)

\* The local part of a transfer covers its message, sent or not.
LEMMA AskedSlack ==
    ASSUME NEW led \in Ledgers, NEW ch \in [Pairs -> Seq(Message)], NEW a \in Asked,
           transfer_error(a.asset, a.dest) = "Ok", affordable(led, a),
           NEW to, to = executed_here(led, a), NEW c, NEW r, Linked(c, r),
           NEW m, m.begins = program(a).begins, m.amount = a.amount
    PROVE  Slack(to, ch, c, r) >= Slack(led, ch, c, r) + Load(c, r, <<a.chain, program(a).to>>, m)
<1> DEFINE k == a.chain
           p == program(a)
           home == chain_of(k, a.asset)
           n == a.amount
           t == TokenOf(k, a.asset)
           left == debit(led, k, t, a.sender, n)
           s == Slack(led, ch, c, r)
           u == Slack(left, ch, c, r)
           v == Slack(to, ch, c, r)
           i == Worth(c, r, k, t, a.sender, 0 - n)
           j == Worth(c, r, k, t, p.to, n)
           l == Load(c, r, <<k, p.to>>, m)
<1>1. n \in Nat /\ 0 - n \in Int /\ n \in Int /\ k \in Nodes /\ a.sender \in Accounts
  BY TransferAssumption
<1>2. IsProgram(p, a)
  BY Program, Zenon
<1>3. t # None /\ led[k][t][a.sender] >= n
  BY Zenon DEF affordable
<1>4. t = Derivative(k, home)
  <2>1. t \in {None, TokenOf(k, reanchored(a.asset, k, k))}
    BY BackingAssumption, Zenon
  <2> QED
    BY <1>3, <2>1, Zenon DEF reanchored, Derivative
<1>5. left \in Ledgers /\ Changed(left, led, k, t, a.sender, 0 - n)
  BY <1>1, <1>3, Debited
<1> HIDE DEF t, left, p, k, n
<1>6. u = s + i
  <2>1. Exceeds(left, ch, led, ch, c, r, i)
    BY <1>1, <1>5, SlackChanged, Zenon
  <2> QED
    BY <2>1, Zenon DEF Exceeds
<1>7. s \in Int /\ i \in Int /\ j \in Int /\ l \in Nat
  <2>1. s \in Int
    BY SlackIsInt, Zenon
  <2>2. i \in Int /\ j \in Int
    BY <1>1, WorthIsInt, Zenon
  <2>3. l \in Nat
    BY <1>1 DEF Load, n
  <2> QED
    BY <2>1, <2>2, <2>3, Zenon
<1>8. CASE p.local = "TransferReserveAsset"
  <2>1. home = k /\ p.begins = "ReserveAssetDeposited"
    BY <1>2, <1>8 DEF IsProgram, k
  <2>2. t = Own(k)
    BY <1>4, <2>1, Zenon DEF Derivative, Own, seen_from
  <2>3. to = credit(left, k, t, p.to, n)
    BY <1>8, Zenon DEF executed_here, k, t, p, n, left
  <2>4. to \in Ledgers /\ Changed(to, left, k, t, p.to, n)
    BY <1>1, <1>5, <2>3, Credited, Zenon
  <2>5. v = u + j
    <3>1. Exceeds(to, ch, left, ch, c, r, j)
      BY <1>1, <1>5, <2>4, SlackChanged, Zenon
    <3> QED
      BY <3>1, Zenon DEF Exceeds
  <2>6. i + j >= l
    <3>1. m.begins = "ReserveAssetDeposited" /\ m.amount = n
      BY <2>1, Zenon DEF p, n
    <3> QED
      BY <1>1, <2>2, <3>1, ReserveMoved, Zenon
  <2> HIDE DEF s, u, v, i, j, l
  <2>7. v >= s + l
    BY <1>6, <1>7, <2>5, <2>6
  <2> QED
    BY <2>7, Zenon DEF s, v, l, p, k
<1>9. CASE p.local # "TransferReserveAsset"
  <2>1. home = p.to /\ p.begins = "WithdrawAsset"
    BY <1>2, <1>9 DEF IsProgram, k
  <2>2. to = left
    BY <1>9, Zenon DEF executed_here, k, t, p, n, left
  <2>3. i >= l
    <3>1. m.begins = "WithdrawAsset" /\ m.amount = n
      BY <2>1, Zenon DEF p, n
    <3>2. t = Derivative(k, p.to)
      BY <1>4, <2>1, Zenon
    <3> QED
      BY <1>1, <3>1, <3>2, DerivativeBurnt, Zenon
  <2>4. v = u
    BY <2>2, Zenon
  <2> HIDE DEF s, u, v, i, j, l
  <2>5. v >= s + l
    BY <1>6, <1>7, <2>3, <2>4
  <2> QED
    BY <2>5, Zenon DEF s, v, l, p, k
<1> QED
  BY <1>8, <1>9

\* A transfer on the ledgers led.
LEMMA TransferSlack ==
    ASSUME NetInv, NEW led \in Ledgers, NEW a \in Asked,
           transfer_on(led, a) \/ transfer_unsent_on(led, a)
    PROVE  Safer(ledger', channel', led, channel)
<1> SUFFICES ASSUME NEW c \in Nodes, NEW r \in Nodes, Linked(c, r)
             PROVE  Slack(ledger', channel', c, r) >= Slack(led, channel, c, r)
  BY Zenon DEF Safer
<1> DEFINE p == program(a)
           q == <<a.chain, p.to>>
           id == Len(sent) + 1
           m == message(id, p.begins, reanchored(a.asset, a.chain, p.to), a.amount, p.fees, p.then)
           s == Slack(led, channel, c, r)
           u == Slack(ledger', channel, c, r)
           v == Slack(ledger', channel', c, r)
           l == Load(c, r, q, m)
<1>1. /\ transfer_error(a.asset, a.dest) = "Ok" /\ affordable(led, a)
      /\ ledger' = executed_here(led, a) /\ channel \in [Pairs -> Seq(Message)]
  BY Zenon DEF transfer_on, transfer_unsent_on, NetInv, InTransit
<1>2. ledger' \in Ledgers
  BY <1>1, ExecutedHere, Zenon
<1>3. m.begins = p.begins /\ m.amount = a.amount /\ a.amount \in Nat /\ id \in Nat
  BY TransferAssumption DEF message, NetInv
<1> HIDE DEF m
<1>4. u >= s + l
  BY <1>1, <1>3, AskedSlack, Zenon
<1>5. s \in Int /\ u \in Int
  BY <1>1, <1>2, SlackIsInt, Zenon
<1>6. l \in Nat
  BY <1>3 DEF Load
<1>7. CASE transfer_on(led, a)
  <2>1. q \in Pairs /\ Pushes(channel', channel, q, m)
    BY <1>7, NetworkAssumption DEF transfer_on, routed, Pairs, Pushes, m
  <2>2. m \in Message /\ OnRoute(q, m)
    BY <1>1, <1>3, <2>1, MessageSent, Zenon DEF m
  <2> HIDE DEF q
  <2>3. u = v + l
    <3>1. Exceeds(ledger', channel, ledger', channel', c, r, l)
      BY <1>1, <1>2, <2>1, <2>2, SlackPushed, Zenon
    <3> QED
      BY <3>1, Zenon DEF Exceeds
  <2>4. v \in Int
    <3>1. channel' \in [Pairs -> Seq(Message)]
      BY <1>1, <2>1, <2>2 DEF Pushes
    <3> QED
      BY <1>2, <3>1, SlackIsInt, Zenon
  <2> HIDE DEF s, u, v, l
  <2>5. v >= s
    BY <1>4, <1>5, <1>6, <2>3, <2>4
  <2> QED
    BY <2>5, Zenon DEF v, s
<1>8. CASE transfer_unsent_on(led, a)
  <2>1. v = u
    BY <1>8, Zenon DEF transfer_unsent_on
  <2> HIDE DEF s, u, v, l
  <2>2. v >= s
    BY <1>4, <1>5, <1>6, <2>1
  <2> QED
    BY <2>2, Zenon DEF v, s
<1> QED
  BY <1>7, <1>8

\* The execution of a message: it gives back what its message stood for.
LEMMA ReceiveSlack ==
    ASSUME DistinctLedgers, NetInv, NEW from \in Nodes, NEW to \in Nodes, receive(from, to)
    PROVE  Safer(ledger', channel', ledger, channel)
<1> SUFFICES ASSUME NEW c \in Nodes, NEW r \in Nodes, Linked(c, r)
             PROVE  Slack(ledger', channel', c, r) >= Slack(ledger, channel, c, r)
  BY Zenon DEF Safer
<1> DEFINE q == <<from, to>>
           m == Head(channel[q])
           ch == popped(from, to)
           t == TokenOf(to, m.asset)
           led == taken(m, from, to)
           d == chain_of(to, m.then.dest)
           s == Slack(ledger, channel, c, r)
           u == Slack(ledger, ch, c, r)
           w == Slack(led, ch, c, r)
           l == Load(c, r, q, m)
           i == Worth(c, r, to, t, from, 0 - m.amount)
<1>1. channel[q] # <<>> /\ q \in Pairs /\ ch = [channel EXCEPT ![q] = Tail(@)]
  BY Zenon DEF receive, Pairs, popped
<1>2. ledger \in Ledgers /\ channel \in [Pairs -> Seq(Message)] /\ InTransit(channel, Underway)
  BY Zenon DEF NetInv, InTransit
<1>3. m \in Message /\ OnRoute(q, m) /\ ch \in [Pairs -> Seq(Message)]
  <2>1. m \in Message /\ OnRoute(q, m) /\ InTransit(ch, Underway \ {m.id})
    BY <1>1, <1>2, Popped, Zenon
  <2> QED
    BY <2>1, Zenon DEF InTransit
<1>4. Pops(ch, channel, q, m)
  BY <1>1, Zenon DEF Pops
<1>5. m.amount \in Nat /\ m.begins \in {"ReserveAssetDeposited", "WithdrawAsset"}
      /\ 0 - m.amount \in Int
  BY <1>3 DEF Message
<1> HIDE DEF q, m, ch
<1>6. u = s + l /\ s \in Int /\ u \in Int /\ l \in Nat
  <2>1. Exceeds(ledger, ch, ledger, channel, c, r, l)
    BY <1>1, <1>2, <1>3, <1>4, SlackPopped, Zenon
  <2>2. s \in Int /\ u \in Int
    BY <1>2, <1>3, SlackIsInt, Zenon
  <2>3. l \in Nat
    BY <1>5 DEF Load
  <2> QED
    BY <2>1, <2>2, <2>3, Zenon DEF Exceeds
<1>7. ASSUME m.begins = "ReserveAssetDeposited"
      PROVE  m.then \in Deposits /\ t = Derivative(to, from)
  BY <1>3, <1>7, Zenon DEF OnRoute, Derivative, q
<1>8. ASSUME m.begins # "ReserveAssetDeposited"
      PROVE  m.begins = "WithdrawAsset" /\ t = Own(to)
  BY <1>3, <1>5, <1>8, Zenon DEF OnRoute, Own
<1>9. CASE receive_refused(from, to, m)
  BY <1>6, <1>9 DEF receive_refused, ch
<1> HIDE DEF t, led
\* The ledgers once the holding register is filled.
<1>10. ASSUME held(m, from, to)
       PROVE  /\ led \in Ledgers /\ t # None
              /\ m.begins = "ReserveAssetDeposited" => w = u
              /\ m.begins # "ReserveAssetDeposited" => w = u + i /\ i + l = Surplus(c, r, to, m.amount)
  <2>1. /\ led \in Ledgers /\ (m.begins = "ReserveAssetDeposited" => led = ledger)
        /\ m.begins # "ReserveAssetDeposited" => Changed(led, ledger, to, t, from, 0 - m.amount)
    BY <1>3, <1>10, Taken DEF led, t
  <2>2. t # None
    BY <1>10, Zenon DEF held, t
  <2>3. ASSUME m.begins # "ReserveAssetDeposited"
        PROVE  w = u + i /\ i + l = Surplus(c, r, to, m.amount)
    <3>1. Exceeds(led, ch, ledger, ch, c, r, i)
      BY <1>2, <1>3, <1>5, <2>1, <2>3, SlackChanged, Zenon
    <3>2. i + l = Surplus(c, r, to, m.amount)
      BY <1>5, <1>8, <2>3, SovereignDebited DEF q
    <3> QED
      BY <3>1, <3>2, Zenon DEF Exceeds
  <2> QED
    BY <2>1, <2>2, <2>3, Zenon
<1>11. i \in Int /\ Surplus(c, r, to, m.amount) \in Nat
  BY <1>5, WorthIsInt DEF Surplus
<1>12. CASE receive_unpaid(from, to, m)
  <2>1. Slack(ledger', channel', c, r) = w /\ held(m, from, to)
    BY <1>12, Zenon DEF receive_unpaid, ch, led
  <2> HIDE DEF s, u, w, l, i
  <2>2. w >= s
    BY <1>6, <1>10, <1>11, <2>1
  <2> QED
    BY <2>1, <2>2, Zenon DEF s
\* And once the rest is deposited.
<1> DEFINE n == rest(m)
           j(y) == Worth(c, r, to, t, y, n)
           v == Slack(ledger', ch, c, r)
<1>13. ASSUME NEW y, held(m, from, to), paid_for(m), ledger' = credit(led, to, t, y, n)
       PROVE  /\ ledger' \in Ledgers /\ v = w + j(y) /\ v \in Int /\ j(y) \in Int
              /\ n \in Nat /\ n <= m.amount /\ Surplus(c, r, to, n) \in Nat
              /\ Surplus(c, r, to, n) <= Surplus(c, r, to, m.amount)
  <2>1. n \in Nat /\ n <= m.amount /\ n \in Int
    BY <1>3, <1>13, RestOfMessage
  <2> HIDE DEF n
  <2>2. ledger' \in Ledgers /\ Changed(ledger', led, to, t, y, n)
    BY <1>10, <1>13, <2>1, Credited, Zenon
  <2>3. Exceeds(ledger', ch, led, ch, c, r, j(y))
    BY <1>3, <1>10, <1>13, <2>1, <2>2, SlackChanged, Zenon
  <2>4. v \in Int
    BY <1>3, <2>2, SlackIsInt, Zenon
  <2>5. j(y) \in Int
    BY <2>1, WorthIsInt, Zenon
  <2>6. Surplus(c, r, to, n) \in Nat /\ Surplus(c, r, to, n) <= Surplus(c, r, to, m.amount)
    BY <1>5, <2>1 DEF Surplus
  <2> QED
    BY <2>1, <2>2, <2>3, <2>4, <2>5, <2>6, Zenon DEF Exceeds
<1>14. CASE receive_deposit(from, to, m)
  <2> DEFINE y == m.then.beneficiary
             x == j(y)
  <2>1. /\ held(m, from, to) /\ paid_for(m) /\ ledger' = credit(led, to, t, y, n)
        /\ Slack(ledger', channel', c, r) = v
    BY <1>14, Zenon DEF receive_deposit, ch, led, t
  <2>2. y \in Accounts
    BY <1>3, <1>14 DEF receive_deposit, Message, Deposits, Forwards
  <2>3. /\ ledger' \in Ledgers /\ v = w + x /\ v \in Int /\ x \in Int
        /\ n \in Nat /\ n <= m.amount /\ Surplus(c, r, to, n) \in Nat
        /\ Surplus(c, r, to, n) <= Surplus(c, r, to, m.amount)
    BY <1>13, <2>1, Zenon
  <2> HIDE DEF n, v, y
  <2>4. CASE m.begins = "ReserveAssetDeposited"
    <3>1. x + l >= 0
      BY <1>5, <1>7, <1>10, <2>1, <2>2, <2>3, <2>4, DerivativeIssued, Zenon DEF q
    <3> HIDE DEF s, u, w, l, i, x, j
    <3>2. v >= s
      BY <1>6, <1>10, <2>1, <2>3, <2>4, <3>1
    <3> QED
      BY <2>1, <3>2, Zenon DEF s
  <2>5. CASE m.begins # "ReserveAssetDeposited"
    <3> DEFINE o == [begins |-> "ReserveAssetDeposited", amount |-> n]
               lo == Load(c, r, <<to, y>>, o)
    <3>1. o.begins = "ReserveAssetDeposited" /\ o.amount = n
      OBVIOUS
    <3> HIDE DEF o
    <3>2. lo \in Nat
      BY <2>3, <3>1 DEF Load
    <3>3. x + Surplus(c, r, to, n) >= lo
      BY <1>8, <2>3, <2>5, <3>1, SovereignCredited, Zenon
    <3> HIDE DEF s, u, w, l, i, x, j, lo
    <3>4. v >= s
      BY <1>6, <1>10, <1>11, <2>1, <2>3, <2>5, <3>2, <3>3
    <3> QED
      BY <2>1, <3>4, Zenon DEF s
  <2> QED
    BY <2>4, <2>5
<1>15. CASE receive_forward(from, to, m)
  <2> DEFINE o == Onward(m, to, d)
             lo == Load(c, r, <<to, d>>, o)
             x == j(d)
             v2 == Slack(ledger', channel', c, r)
  <2>1. /\ held(m, from, to) /\ paid_for(m) /\ ledger' = credit(led, to, t, d, n)
        /\ m.then.op = "DepositReserveAsset"
    BY <1>15, Zenon DEF receive_forward, led, t
  <2>2. /\ ledger' \in Ledgers /\ v = w + x /\ v \in Int /\ x \in Int
        /\ n \in Nat /\ n <= m.amount /\ Surplus(c, r, to, n) \in Nat
        /\ Surplus(c, r, to, n) <= Surplus(c, r, to, m.amount)
    BY <1>13, <2>1, Zenon
  <2>3. o.begins = "ReserveAssetDeposited" /\ o.amount = n
    BY DEF Onward, message
  <2>4. m.begins # "ReserveAssetDeposited"
    BY <1>7, <2>1 DEF Deposits
  <2> HIDE DEF n, v, o, d
  <2>5. lo \in Nat
    BY <2>2, <2>3 DEF Load
  <2>6. x + Surplus(c, r, to, n) >= lo
    BY <1>8, <2>2, <2>3, <2>4, SovereignCredited, Zenon
  <2>7. CASE <<to, d>> \in Routes
    <3>1. <<to, d>> \in Pairs /\ d \in Nodes
      BY <2>7, NetworkAssumption, Zenon DEF Pairs
    <3>2. Pushes(channel', ch, <<to, d>>, o)
      BY <1>15, <2>7, Zenon DEF receive_forward, Pushes, ch, o, Onward, d
    <3>3. o \in Message /\ OnRoute(<<to, d>>, o)
      BY <1>1, <1>3, <2>1, <2>2, <3>1, MessageOnward, Zenon DEF o, n
    <3>4. Exceeds(ledger', ch, ledger', channel', c, r, lo)
      BY <1>3, <2>2, <3>1, <3>2, <3>3, SlackPushed, Zenon
    <3>5. v = v2 + lo
      BY <3>4, Zenon DEF Exceeds, v
    <3>6. v2 \in Int
      <4>1. channel' \in [Pairs -> Seq(Message)]
        BY <1>3, <3>1, <3>2, <3>3 DEF Pushes
      <4> QED
        BY <2>2, <4>1, SlackIsInt, Zenon
    <3> HIDE DEF s, u, w, l, i, x, j, lo, v2
    <3>7. v2 >= s
      BY <1>6, <1>10, <1>11, <2>1, <2>2, <2>4, <2>5, <2>6, <3>5, <3>6
    <3> QED
      BY <3>7, Zenon DEF s, v2
  <2>8. CASE <<to, d>> \notin Routes
    <3>1. v2 = v
      BY <1>15, <2>8, Zenon DEF receive_forward, ch, v, d
    <3> HIDE DEF s, u, w, l, i, x, j, lo, v2
    <3>2. v2 >= s
      BY <1>6, <1>10, <1>11, <2>1, <2>2, <2>4, <2>5, <2>6, <3>1
    <3> QED
      BY <3>2, Zenon DEF s, v2
  <2> QED
    BY <2>7, <2>8
<1> QED
  BY <1>9, <1>12, <1>14, <1>15, Zenon DEF receive, m, q

\* States that agree are as safe as each other.
LEMMA SaferSame ==
    ASSUME NEW led \in Ledgers, NEW ch \in [Pairs -> Seq(Message)]
    PROVE  Safer(led, ch, led, ch)
<1> SUFFICES ASSUME NEW c \in Nodes, NEW r \in Nodes, Linked(c, r)
             PROVE  Slack(led, ch, c, r) >= Slack(led, ch, c, r)
  BY Zenon DEF Safer
<1>1. Slack(led, ch, c, r) \in Int
  BY SlackIsInt, Zenon
<1> QED
  BY <1>1

\* Two steps, one after the other.
LEMMA SaferStill ==
    ASSUME NEW led1 \in Ledgers, NEW led2 \in Ledgers, NEW led3 \in Ledgers,
           NEW ch1 \in [Pairs -> Seq(Message)], NEW ch2 \in [Pairs -> Seq(Message)],
           NEW ch3 \in [Pairs -> Seq(Message)],
           Safer(led2, ch2, led1, ch1), Safer(led3, ch3, led2, ch2)
    PROVE  Safer(led3, ch3, led1, ch1)
<1> SUFFICES ASSUME NEW c \in Nodes, NEW r \in Nodes, Linked(c, r)
             PROVE  Slack(led3, ch3, c, r) >= Slack(led1, ch1, c, r)
  BY Zenon DEF Safer
<1> DEFINE x == Slack(led1, ch1, c, r)
           y == Slack(led2, ch2, c, r)
           z == Slack(led3, ch3, c, r)
<1>1. x \in Int /\ y \in Int /\ z \in Int
  BY SlackIsInt, Zenon
<1>2. y >= x /\ z >= y
  BY Zenon DEF Safer
<1> HIDE DEF x, y, z
<1>3. z >= x
  BY <1>1, <1>2
<1> QED
  BY <1>3, Zenon DEF x, z

\* An amount leaves an account and is put at another holder of the ledger.
LEMMA MoveSlack ==
    ASSUME NEW led \in Ledgers, NEW left \in Ledgers, NEW to \in Ledgers,
           NEW ch \in [Pairs -> Seq(Message)], NEW k, NEW t, NEW x \in Accounts, NEW y,
           NEW n \in Nat, Changed(left, led, k, t, x, 0 - n), Changed(to, left, k, t, y, n)
    PROVE  Safer(left, ch, led, ch) /\ Safer(to, ch, led, ch)
<1> SUFFICES ASSUME NEW c \in Nodes, NEW r \in Nodes, Linked(c, r)
             PROVE  /\ Slack(left, ch, c, r) >= Slack(led, ch, c, r)
                    /\ Slack(to, ch, c, r) >= Slack(led, ch, c, r)
  BY Zenon DEF Safer
<1> DEFINE s == Slack(led, ch, c, r)
           u == Slack(left, ch, c, r)
           v == Slack(to, ch, c, r)
           i == Worth(c, r, k, t, x, 0 - n)
           j == Worth(c, r, k, t, y, n)
<1>1. n \in Int /\ 0 - n \in Int
  OBVIOUS
<1>2. Exceeds(left, ch, led, ch, c, r, i) /\ Exceeds(to, ch, left, ch, c, r, j)
  BY <1>1, SlackChanged, Zenon
<1>3. u = s + i /\ v = u + j
  BY <1>2, Zenon DEF Exceeds
<1>4. s \in Int /\ i \in Int /\ j \in Int
  <2>1. s \in Int
    BY SlackIsInt, Zenon
  <2>2. i \in Int /\ j \in Int
    BY <1>1, WorthIsInt, Zenon
  <2> QED
    BY <2>1, <2>2, Zenon
<1>5. i >= 0 /\ i + j >= 0
  BY MoveWorth, Zenon
<1> HIDE DEF s, u, v, i, j
<1>6. u >= s /\ v >= s
  BY <1>3, <1>4, <1>5
<1> QED
  BY <1>6, Zenon DEF s, u, v

\* A payout takes from the vault what it puts on the same ledger.
LEMMA DepositedSlack ==
    ASSUME NetInv, NEW p \in Payouts, can_withdraw(p)
    PROVE  /\ withdrawn(p) \in Ledgers /\ Safer(withdrawn(p), channel, ledger, channel)
           /\ deposited(withdrawn(p), p) \in Ledgers
           /\ Safer(deposited(withdrawn(p), p), channel, ledger, channel)
<1> DEFINE token == adapter_token(p.asset)
           left == withdrawn(p)
           to == deposited(left, p)
           who == IF recipient_world(p.who) = "local" THEN account_of(p.who) ELSE tmp_account(p.who)
<1>1. left \in Ledgers /\ Changed(left, ledger, Home, token, vault, 0 - p.amount)
  BY Withdrawn, Zenon
<1>2. to \in Ledgers /\ Changed(to, left, Home, token, who, p.amount)
  BY Deposited, Zenon
<1>3. p.amount \in Nat /\ vault \in Accounts
  BY PayoutAmount, PayoutAssumption
<1>4. ledger \in Ledgers /\ channel \in [Pairs -> Seq(Message)]
  BY Zenon DEF NetInv, InTransit
<1> HIDE DEF token, left, to, who
<1>5. Safer(left, channel, ledger, channel) /\ Safer(to, channel, ledger, channel)
  BY <1>1, <1>2, <1>3, <1>4, MoveSlack, Zenon
<1> QED
  BY <1>1, <1>2, <1>5, Zenon DEF left, to

\* A deposit into the bridge pallet: the temporary account pays the fee to the
\* treasury and the rest to the vault.
LEMMA SplitSlack ==
    ASSUME NEW led \in Ledgers, NEW led1 \in Ledgers, NEW led2 \in Ledgers, NEW led3 \in Ledgers,
           NEW ch \in [Pairs -> Seq(Message)], NEW k, NEW t, NEW x \in Accounts, NEW y \in Accounts,
           NEW z \in Accounts, NEW n \in Nat, NEW fee \in Nat,
           Changed(led1, led, k, t, x, 0 - n), Changed(led2, led1, k, t, y, fee),
           Changed(led3, led2, k, t, z, n - fee)
    PROVE  Safer(led3, ch, led, ch)
<1> SUFFICES ASSUME NEW c \in Nodes, NEW r \in Nodes, Linked(c, r)
             PROVE  Slack(led3, ch, c, r) >= Slack(led, ch, c, r)
  BY Zenon DEF Safer
<1> DEFINE s == Slack(led, ch, c, r)
           s1 == Slack(led1, ch, c, r)
           s2 == Slack(led2, ch, c, r)
           s3 == Slack(led3, ch, c, r)
           here == k = c /\ t = Derivative(c, r)
           i == Worth(c, r, k, t, x, 0 - n)
           j == Worth(c, r, k, t, y, fee)
           l == Worth(c, r, k, t, z, n - fee)
<1>1. n \in Int /\ fee \in Int /\ 0 - n \in Int /\ n - fee \in Int
  OBVIOUS
<1>2. /\ Exceeds(led1, ch, led, ch, c, r, i) /\ Exceeds(led2, ch, led1, ch, c, r, j)
      /\ Exceeds(led3, ch, led2, ch, c, r, l)
  BY <1>1, SlackChanged, Zenon
<1>3. s1 = s + i /\ s2 = s1 + j /\ s3 = s2 + l
  BY <1>2, Zenon DEF Exceeds
<1>4. s \in Int
  BY SlackIsInt, Zenon
<1>5. ASSUME NEW who \in Accounts, NEW m \in Int
      PROVE  Worth(c, r, k, t, who, m) = IF here THEN 0 - m ELSE 0
  <2>1. who # c /\ who \in Holders
    BY AccountIsNoChain
  <2> QED
    BY <2>1 DEF Worth, Gain, RowGain
<1>6. /\ i = (IF here THEN 0 - (0 - n) ELSE 0) /\ j = (IF here THEN 0 - fee ELSE 0)
      /\ l = (IF here THEN 0 - (n - fee) ELSE 0)
  BY <1>1, <1>5
<1> HIDE DEF s, s1, s2, s3, i, j, l, here
<1>7. s3 >= s
  BY <1>1, <1>3, <1>4, <1>6
<1> QED
  BY <1>7, Zenon DEF s, s3

\* The forwarder's payout through the temporary account and the bridge's deposit
\* leaves every reserve as safe as it was.
LEMMA ForwardOuterSlack ==
    ASSUME NetInv, NEW p \in Payouts, forward_outer(p)
    PROVE  ledger' \in Ledgers /\ Safer(ledger', channel, ledger, channel)
<1> DEFINE fee == OuterFee(p.who, p.asset)
           token == adapter_token(p.asset)
           there == deposited(withdrawn(p), p)
           emptied == debit(there, Home, token, tmpOuter, p.amount)
           charged == credit(emptied, Home, token, treasury, fee)
<1>1. /\ can_withdraw(p) /\ recipient_world(p.who) = "outer" /\ fee # None /\ p.amount > fee
      /\ ledger' = IF is_reserve(p.asset) THEN credit(charged, Home, token, vault, p.amount - fee)
                   ELSE charged
  BY Zenon DEF forward_outer
<1>2. tmp_account(p.who) = tmpOuter
  BY <1>1 DEF tmp_account
<1>3. /\ there \in Ledgers /\ p.amount \in Nat
      /\ token \in Tokens => there[Home][token][tmpOuter] >= p.amount
  BY <1>1, <1>2, InTemporaryAccount
<1>4. Safer(there, channel, ledger, channel)
  BY <1>1, DepositedSlack, Zenon
<1>5. fee \in Nat
  BY <1>1, BridgeAccountsAssumption, Zenon
<1>6. ledger' = credit(charged, Home, token, vault, p.amount - fee)
  BY <1>1, BridgeAccountsAssumption, Zenon DEF can_withdraw
<1> HIDE DEF fee, token, there
<1>7. p.amount - fee \in Nat
  BY <1>1, <1>3, <1>5
<1>8. emptied \in Ledgers /\ Changed(emptied, there, Home, token, tmpOuter, 0 - p.amount)
  BY <1>3, Debited
<1> HIDE DEF emptied
<1>9. charged \in Ledgers /\ Changed(charged, emptied, Home, token, treasury, fee)
  BY <1>5, <1>8, Credited, Zenon
<1> HIDE DEF charged
<1>10. ledger' \in Ledgers /\ Changed(ledger', charged, Home, token, vault, p.amount - fee)
  BY <1>6, <1>7, <1>9, Credited, Zenon
<1>11. ledger \in Ledgers /\ channel \in [Pairs -> Seq(Message)]
  BY Zenon DEF NetInv, InTransit
<1>12. tmpOuter \in Accounts /\ treasury \in Accounts /\ vault \in Accounts
  BY PayoutAssumption, Zenon
<1>13. Safer(ledger', channel, there, channel)
  BY <1>3, <1>5, <1>8, <1>9, <1>10, <1>11, <1>12, SplitSlack, Zenon
<1> QED
  BY <1>3, <1>4, <1>10, <1>11, <1>13, SaferStill, Zenon

\* Every payout leaves the reserves as safe as before.
LEMMA PaySlack ==
    ASSUME PayInv, NEW p \in Payouts, pay(p), Len(sent) < MaxTransfers
    PROVE  Safer(ledger', channel', ledger, channel)
<1>1. NetInv /\ ledger \in Ledgers /\ channel \in [Pairs -> Seq(Message)]
  BY Zenon DEF PayInv, NetInv, InTransit
<1>2. CASE withdraw_fails(p)
  <2>1. ledger' = ledger /\ channel' = channel
    BY <1>2, Zenon DEF withdraw_fails, netVars
  <2> QED
    BY <1>1, <2>1, SaferSame, Zenon
<1>3. CASE no_account(p)
  <2>1. can_withdraw(p) /\ ledger' = withdrawn(p) /\ channel' = channel
    BY <1>3, Zenon DEF no_account
  <2> QED
    BY <1>1, <2>1, DepositedSlack, Zenon
<1>4. CASE pay_local(p) \/ outer_refused(p) \/ xcm_refused(p)
  <2>1. can_withdraw(p) /\ ledger' = deposited(withdrawn(p), p) /\ channel' = channel
    BY <1>4, Zenon DEF pay_local, outer_refused, xcm_refused
  <2> QED
    BY <1>1, <2>1, DepositedSlack, Zenon
<1>5. CASE forward_outer(p)
  <2>1. channel' = channel
    BY <1>5, Zenon DEF forward_outer
  <2> QED
    BY <1>1, <1>5, <2>1, ForwardOuterSlack, Zenon
<1>6. CASE forward_xcm(p) \/ xcm_unsent(p)
  <2> DEFINE there == deposited(withdrawn(p), p)
             a == forwarded(p)
  <2>1. can_withdraw(p) /\ (transfer_on(there, a) \/ transfer_unsent_on(there, a))
    BY <1>6, Zenon DEF forward_xcm, xcm_unsent
  <2>2. there \in Ledgers /\ Safer(there, channel, ledger, channel)
    BY <1>1, <2>1, DepositedSlack, Zenon
  <2>3. a \in Asked
    BY PayoutAmount, Zenon
  <2> HIDE DEF there, a
  <2>4. Safer(ledger', channel', there, channel)
    BY <1>1, <2>1, <2>2, <2>3, TransferSlack, Zenon
  <2>5. NetInv'
    BY <1>1, <2>1, <2>2, <2>3, TransferOn, TransferUnsentOn, Zenon
  <2>6. ledger' \in Ledgers /\ channel' \in [Pairs -> Seq(Message)]
    BY <2>5, Zenon DEF NetInv, InTransit
  <2> QED
    BY <1>1, <2>2, <2>4, <2>6, SaferStill, Zenon
<1> QED
  BY <1>2, <1>3, <1>4, <1>5, <1>6, Zenon DEF pay

\* The invariant: every reserve covers what it backs.
Solvent(led, ch) == \A c, r \in Nodes : Linked(c, r) => Slack(led, ch, c, r) >= 0

\* It is what Backed says of the ledgers and the channels.
LEMMA SolventIsBacked ==
    ASSUME NetInv, Solvent(ledger, channel)
    PROVE  Backed
<1> SUFFICES ASSUME NEW r \in Nodes, NEW c \in Nodes \ {r},
                    TokenOf(c, seen_from(c, r)) # None, TokenOf(r, HERE) # None
             PROVE  issued(c, r) + carried(r, c, "ReserveAssetDeposited", r)
                                 + carried(c, r, "WithdrawAsset", r) <= ledger[r][TokenOf(r, HERE)][c]
  BY DEF Backed
<1> DEFINE a == SumFunction(ledger[c][Derivative(c, r)])
           p == Carried(channel, r, c, "ReserveAssetDeposited", r)
           w == Carried(channel, c, r, "WithdrawAsset", r)
           x == ledger[r][Own(r)][c]
<1>1. Linked(c, r) /\ c \in Nodes
  BY DEF Linked, Derivative, Own
<1>2. <<r, c>> \in Pairs /\ <<c, r>> \in Pairs
  BY <1>1, LinkTokens, Zenon
<1>3. ledger \in Ledgers /\ channel \in [Pairs -> Seq(Message)]
  BY Zenon DEF NetInv, InTransit
<1>4. ASSUME NEW from, NEW to, <<from, to>> \in Pairs, NEW begins
      PROVE  carried(from, to, begins, r) = Carried(channel, from, to, begins, r)
  <2> DEFINE ms == channel[<<from, to>>]
             h == Weight(to, begins, r)
  <2>1. ms \in Seq(Message)
    BY <1>3, <1>4, Zenon
  <2>2. [k \in DOMAIN ms |->
            IF ms[k].begins = begins /\ chain_of(to, ms[k].asset) = r THEN ms[k].amount ELSE 0]
          = [k \in 1 .. Len(ms) |-> h[ms[k]]]
    <3> HIDE DEF ms
    <3> QED
      BY <2>1 DEF Weight
  <2> QED
    BY <2>2, Zenon DEF carried, Carried, SumOver
<1>5. /\ issued(c, r) = a /\ carried(r, c, "ReserveAssetDeposited", r) = p
      /\ carried(c, r, "WithdrawAsset", r) = w
  BY <1>2, <1>4, Zenon DEF issued, Derivative
<1>6. a \in Int /\ x \in Int
  BY <1>1, <1>3, SlackIsInt, Zenon
<1>7. p \in Int /\ w \in Int
  BY <1>2, <1>3, CarriedIsInt, Zenon
<1>8. x - (a + (p + w)) >= 0
  BY <1>1, Zenon DEF Solvent, Slack, Borne
<1> HIDE DEF a, p, w, x
<1>9. a + p + w <= x
  BY <1>6, <1>7, <1>8
<1> QED
  BY <1>5, <1>9, Zenon DEF x, Own

\* At the start nothing is on its way.
LEMMA SolventInitial ==
    ASSUME PayoutInit
    PROVE  Solvent(ledger, channel)
<1> SUFFICES ASSUME NEW c \in Nodes, NEW r \in Nodes, Linked(c, r)
             PROVE  Slack(ledger, channel, c, r) >= 0
  BY Zenon DEF Solvent
<1> DEFINE a == SumFunction(ledger[c][Derivative(c, r)])
           x == ledger[r][Own(r)][c]
<1>1. ledger = Endowed /\ channel = [q \in Pairs |-> <<>>]
  BY Zenon DEF PayoutInit, NetInit
<1>2. ledger \in Ledgers /\ channel \in [Pairs -> Seq(Message)]
  BY <1>1, TransferAssumption DEF Ledgers
<1>3. a <= x
  BY <1>1, BackingAssumption DEF Linked, Derivative, Own
<1>4. a \in Int /\ x \in Int
  BY <1>2, SlackIsInt, Zenon
<1>5. ASSUME NEW from, NEW to, <<from, to>> \in Pairs, NEW begins
      PROVE  Carried(channel, from, to, begins, r) = 0
  <2>1. channel[<<from, to>>] = <<>>
    BY <1>1, <1>5, Zenon
  <2>2. [k \in 1 .. Len(<<>>) |-> Weight(to, begins, r)[<<>>[k]]] = [k \in {} |-> 0]
    OBVIOUS
  <2> QED
    BY <2>1, <2>2, SumOfNone DEF Carried, SumOver
<1>6. Borne(channel, c, r) = 0
  <2>1. <<r, c>> \in Pairs /\ <<c, r>> \in Pairs
    BY LinkTokens, Zenon
  <2> QED
    BY <1>5, <2>1 DEF Borne
<1> HIDE DEF a, x
<1>7. x - (a + 0) >= 0
  BY <1>3, <1>4
<1> QED
  BY <1>6, <1>7, Zenon DEF Slack, a, x

\* Every step keeps it.
LEMMA SolventStep ==
    ASSUME DistinctLedgers, PayInv, PayInv', Solvent(ledger, channel), [PayoutNext]_payoutVars
    PROVE  Solvent(ledger', channel')
<1>1. ledger \in Ledgers /\ channel \in [Pairs -> Seq(Message)] /\ NetInv
  BY Zenon DEF PayInv, NetInv, InTransit
<1>2. ledger' \in Ledgers /\ channel' \in [Pairs -> Seq(Message)]
  BY Zenon DEF PayInv, NetInv, InTransit
<1>3. Safer(ledger', channel', ledger, channel)
  <2>1. ASSUME NEW p \in Payouts, pay(p), Len(sent) < MaxTransfers
        PROVE  Safer(ledger', channel', ledger, channel)
    BY <2>1, PaySlack, Zenon
  <2>2. ASSUME NEW a \in Requests, transfer(a) \/ transfer_unsent(a)
        PROVE  Safer(ledger', channel', ledger, channel)
    <3>1. a \in Asked
      BY <2>2 DEF Asked
    <3> QED
      BY <1>1, <2>2, <3>1, TransferSlack, Zenon DEF transfer, transfer_unsent
  <2>3. ASSUME NEW q \in Pairs, receive(q[1], q[2])
        PROVE  Safer(ledger', channel', ledger, channel)
    <3>1. q[1] \in Nodes /\ q[2] \in Nodes
      BY DEF Pairs
    <3> QED
      BY <1>1, <2>3, <3>1, ReceiveSlack, Zenon
  <2>4. CASE UNCHANGED payoutVars
    <3>1. ledger' = ledger /\ channel' = channel
      BY <2>4, Zenon DEF payoutVars, netVars
    <3> QED
      BY <1>1, <3>1, SaferSame, Zenon
  <2> QED
    BY <2>1, <2>2, <2>3, <2>4, Zenon DEF PayoutNext, Ask
<1> SUFFICES ASSUME NEW c \in Nodes, NEW r \in Nodes, Linked(c, r)
             PROVE  Slack(ledger', channel', c, r) >= 0
  BY Zenon DEF Solvent
<1> DEFINE x == Slack(ledger, channel, c, r)
           y == Slack(ledger', channel', c, r)
<1>4. x \in Int /\ y \in Int
  BY <1>1, <1>2, SlackIsInt, Zenon
<1>5. x >= 0 /\ y >= x
  BY <1>3, Zenon DEF Solvent, Safer
<1> HIDE DEF x, y
<1>6. y >= 0
  BY <1>4, <1>5
<1> QED
  BY <1>6, Zenon DEF y

\* Transfers and payouts never leave a derivative unbacked, if every chain keeps
\* the assets of different chains on different ledgers: the programs of
\* create_instructions move an asset into the reserve before it is announced,
\* and withdraw a derivative before the reserve is asked for.
THEOREM DerivativesAreBacked == DistinctLedgers => (PayoutSpec => []Backed)
<1> SUFFICES ASSUME DistinctLedgers
             PROVE  PayoutSpec => []Backed
  OBVIOUS
<1> DEFINE Inv == Solvent(ledger, channel)
<1>1. PayoutInit => Inv
  BY SolventInitial, Zenon
<1>2. PayInv /\ PayInv' /\ Inv /\ [PayoutNext]_payoutVars => Inv'
  BY SolventStep, Zenon
<1>3. PayInv /\ Inv => Backed
  BY SolventIsBacked, Zenon DEF PayInv
<1> QED
  BY <1>1, <1>2, <1>3, PayInvariant, PTL DEF PayoutSpec

=============================================================================
