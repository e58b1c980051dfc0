------------------------- MODULE BridgeAuditProofs -------------------------
(***************************************************************************)
(* The books of the bridge balance, for any assets, accounts, fees and     *)
(* proposals: every step moves each balance by what its event tells, or by *)
(* less where dust is reaped or a payout fails.                            *)
(***************************************************************************)
EXTENDS BridgeAudit, SygmaBridgeProofs, FoldTheorems

\* The types of the state the books are about.
LEMMA BooksTypes ==
    ASSUME TypeOK
    PROVE  /\ balances \in Balances
           /\ \A a \in AssetIds, x \in Accounts : balances[a][x] \in Int
           /\ DepositEvents \in Seq(DepositEvent)
           /\ ExecutionEvents \in Seq(Proposals)
           /\ batch \in Seq(Proposals)
<1>1. balances \in Balances
  BY DEF TypeOK, BalancesTypeOK, Balances
<1> QED
  BY <1>1 DEF TypeOK, Balances

\* The same after a step.
LEMMA NewBalances ==
    ASSUME TypeOK'
    PROVE  \A a \in AssetIds, x \in Accounts : balances'[a][x] \in Int
<1>1. balances' \in Balances
  BY DEF TypeOK, BalancesTypeOK, Balances
<1> QED
  BY <1>1 DEF Balances

\* Two facts about inequalities.
LEMMA Inequalities ==
    /\ \A u, v, w, m \in Int : u <= v /\ w <= u + m => w <= v + m
    /\ \A u, v \in Int, n \in Nat : u <= v - n => u <= v
OBVIOUS

\* A step that emits the Deposit event e, or executes proposal p.
Emits(e) == DepositEvents' = Append(DepositEvents, e)
Executes(p) == ExecutionEvents' = Append(ExecutionEvents, p)

\* The step moves every balance by at most what M tells, and exactly by that
\* where no dust is left.
MovesAtMost(M) ==
    \A b \in AssetIds, y \in Accounts : balances'[b][y] <= balances[b][y] + M[b][y]
MovesExactly(M) ==
    \A b \in AssetIds, y \in Accounts :
        MinBalance[b] = 1 => balances'[b][y] = balances[b][y] + M[b][y]

\* The explanation grows by M.
Explains(M) == \A b \in AssetIds, y \in Accounts : Explained(b, y)' = Explained(b, y) + M[b][y]

\* What a Deposit event and an executed proposal tell of all balances.
DepositTells(e) == [b \in AssetIds |-> [y \in Accounts |-> DepositMove(e, b, y)]]
ExecutionTells(p) == [b \in AssetIds |-> [y \in Accounts |-> ExecutionMove(p, b, y)]]

\* A withdrawal leaves the difference, or less: exactly the difference where
\* the minimum balance leaves no dust.
LEMMA WithdrawnMoves ==
    ASSUME NEW bal \in Balances, NEW a \in AssetIds, NEW x \in Accounts, NEW n \in Nat,
           n <= bal[a][x], NEW b \in AssetIds, NEW y \in Accounts
    PROVE  LET moved == bal[b][y] - If(b = a /\ y = x, n)
           IN  /\ withdrawn(bal, a, x, n)[b][y] <= moved
               /\ MinBalance[b] = 1 => withdrawn(bal, a, x, n)[b][y] = moved
<1>1. bal[b][y] \in Nat /\ bal[a][x] \in Nat /\ MinBalance[a] \in Nat
  BY TransactorAssumption DEF Balances
<1>2. withdrawn(bal, a, x, n)[b][y] =
        IF b = a /\ y = x THEN above_dust(a, bal[a][x] - n) ELSE bal[b][y]
  BY DEF Balances, withdrawn
<1> QED
  BY <1>1, <1>2 DEF above_dust, If

\* The same of a deposit.
LEMMA DepositedMoves ==
    ASSUME NEW bal \in Balances, NEW a \in AssetIds, NEW x \in Accounts, NEW n \in Nat,
           NEW b \in AssetIds, NEW y \in Accounts
    PROVE  LET moved == bal[b][y] + If(b = a /\ y = x, n)
           IN  /\ deposited(bal, a, x, n)[b][y] <= moved
               /\ MinBalance[b] = 1 => deposited(bal, a, x, n)[b][y] = moved
BY TransactorAssumption DEF Balances, deposited, above_dust, If

\* The balances after a deposit against its event.
LEMMA DepositTold ==
    ASSUME TypeOK, NEW origin \in Origins, NEW a \in AssetIds, NEW x \in Amounts,
           NEW dest \in Dests, deposit(origin, a, x, dest)
    PROVE  \E e \in DepositEvent :
              /\ Emits(e) /\ e.deposit_data = convert_to(e.asset, e.bridged)
              /\ MovesAtMost(DepositTells(e)) /\ MovesExactly(DepositTells(e))
<1> DEFINE d == extract_dest(dest)
           fee == get_fee(d, a, x)
           net == bridge_amount(x, fee)
           e == [dest_domain_id |-> d, deposit_nonce |-> DepositCounts[d],
                 resource_id |-> extract_asset(a), sender |-> origin,
                 deposit_data |-> convert_to(a, net), fee_amount |-> fee,
                 asset |-> a, bridged |-> net]
           R == get_token_reserved_account(a)
           w == withdrawn(balances, a, origin, x)
           f == after_fee(origin, a, x, fee)
<1>1. /\ d \in Domains /\ x \in Nat /\ fee \in Nat /\ net \in Nat
      /\ convert_to(a, net) \in Nat
  BY DepositFacts
<1>2. /\ origin \in Users /\ extract_asset(a) # None /\ R # None
      /\ can_withdraw(balances, a, origin, x)
      /\ balances' = after_deposit(origin, a, x, fee)
      /\ Emits(e)
  BY DEF deposit, Emits
<1>3. x = net + fee
  BY <1>1 DEF bridge_amount
<1>4. /\ origin \in Accounts /\ FeeReserveAccount \in Accounts /\ R \in Accounts
      /\ R = ReserveAccounts[a]
  BY <1>2, TransactorAssumption, BridgeAssumption DEF get_token_reserved_account
<1>5. /\ e \in DepositEvent
      /\ e.asset = a /\ e.sender = origin /\ e.fee_amount = fee /\ e.bridged = net
      /\ e.deposit_data = convert_to(a, net)
  <2>1. DepositCounts[d] \in Nat
    BY <1>1, BridgeAssumption DEF TypeOK
  <2> QED
    BY <1>1, <1>2, <2>1, BindingType DEF DepositEvent
<1>6. balances \in Balances /\ x <= balances[a][origin]
  BY <1>2 DEF TypeOK, BalancesTypeOK, Balances, can_withdraw
<1> HIDE DEF e
<1>7. w \in Balances /\ f \in Balances
  BY <1>1, <1>4, <1>6, WithdrawnType, DepositedType DEF after_fee
<1>8. ASSUME NEW b \in AssetIds, NEW y \in Accounts
      PROVE  /\ balances'[b][y] <= balances[b][y] + DepositMove(e, b, y)
             /\ MinBalance[b] = 1 => balances'[b][y] = balances[b][y] + DepositMove(e, b, y)
  <2>1. /\ w[b][y] <= balances[b][y] - If(b = a /\ y = origin, x)
        /\ MinBalance[b] = 1 => w[b][y] = balances[b][y] - If(b = a /\ y = origin, x)
    BY <1>1, <1>4, <1>6, WithdrawnMoves
  <2>2. f = deposited(w, a, FeeReserveAccount, fee)
    BY DEF after_fee
  <2> HIDE DEF d, fee, net, w, f, R
  <2>3. /\ f[b][y] <= w[b][y] + If(b = a /\ y = FeeReserveAccount, fee)
        /\ MinBalance[b] = 1 => f[b][y] = w[b][y] + If(b = a /\ y = FeeReserveAccount, fee)
    BY <1>1, <1>4, <1>7, <2>2, DepositedMoves
  <2>4. balances' = IF is_reserve(a) THEN deposited(f, a, R, net) ELSE f
    BY <1>2 DEF after_deposit, f, R, net
  <2>5. /\ balances'[b][y] <= f[b][y] + If(b = a /\ Keeps(y, a), net)
        /\ MinBalance[b] = 1 => balances'[b][y] = f[b][y] + If(b = a /\ Keeps(y, a), net)
    <3>1. CASE is_reserve(a)
      <4>1. Keeps(y, a) <=> y = R
        BY <1>4, <3>1 DEF Keeps
      <4> QED
        BY <1>1, <1>4, <1>7, <2>4, <3>1, <4>1, DepositedMoves DEF If
    <3>2. CASE ~is_reserve(a)
      BY <1>7, <2>4, <3>2 DEF If, Keeps, Balances
    <3> QED
      BY <3>1, <3>2
  <2>6. /\ balances[b][y] \in Int /\ w[b][y] \in Int /\ f[b][y] \in Int
        /\ balances'[b][y] \in Int
    <3>1. balances' \in Balances
      BY <1>1, <1>4, <1>7, <2>4, DepositedType
    <3> QED
      BY <1>6, <1>7, <3>1 DEF Balances
  <2>7. DepositMove(e, b, y) = If(b = a /\ y = FeeReserveAccount, fee)
                               + If(b = a /\ Keeps(y, a), net) - If(b = a /\ y = origin, x)
    <3>1. DepositMove(e, b, y) =
            IF a # b THEN 0 ELSE If(y = FeeReserveAccount, fee) + If(Keeps(y, b), net)
                                 - If(y = origin, net + fee)
      BY <1>5 DEF DepositMove
    <3> QED
      BY <1>1, <1>3, <3>1 DEF If
  <2>8. /\ If(b = a /\ y = FeeReserveAccount, fee) \in Int
        /\ If(b = a /\ Keeps(y, a), net) \in Int
        /\ If(b = a /\ y = origin, x) \in Int
    BY <1>1 DEF If
  <2> QED
    BY <2>1, <2>3, <2>5, <2>6, <2>7, <2>8
<1>9. MovesAtMost(DepositTells(e)) /\ MovesExactly(DepositTells(e))
  BY <1>8 DEF MovesAtMost, MovesExactly, DepositTells
<1> QED
  BY <1>2, <1>5, <1>9

\* The balances after a proposal was handled: an executed one against its
\* event; a refused one moves nothing, a failed payout can only take.
LEMMA ExecutionTold ==
    ASSUME TypeOK, NEW p \in Proposals
    PROVE  /\ complete_proposal(p) =>
                 MovesAtMost(ExecutionTells(p)) /\ MovesExactly(ExecutionTells(p))
           /\ fail_payout(p) =>
                 \A b \in AssetIds, y \in Accounts : balances'[b][y] <= balances[b][y]
<1> SUFFICES ASSUME rejection(p) = "Ok", NEW b \in AssetIds, NEW y \in Accounts
             PROVE  /\ complete_proposal(p) =>
                          /\ balances'[b][y] <= balances[b][y] + ExecutionMove(p, b, y)
                          /\ MinBalance[b] = 1 =>
                                balances'[b][y] = balances[b][y] + ExecutionMove(p, b, y)
                    /\ fail_payout(p) => balances'[b][y] <= balances[b][y]
  BY DEF complete_proposal, fail_payout, MovesAtMost, MovesExactly, ExecutionTells
<1> DEFINE a == asset_of(p)
           n == amount_of(p)
           R == reserve_of(p)
           r == after_release(p)
<1>1. /\ a \in AssetIds /\ n \in Nat /\ R \in Accounts
      /\ R = ReserveAccounts[a]
      /\ balances \in Balances
  BY AcceptedType DEF TypeOK, BalancesTypeOK, Balances, reserve_of, get_token_reserved_account
<1>2. is_reserve(a) => n <= balances[a][R]
  BY DEF rejection, can_withdraw
<1>3. r = IF is_reserve(a) THEN withdrawn(balances, a, R, n) ELSE balances
  BY DEF after_release
<1>4. /\ complete_proposal(p) => balances' = deposited(r, a, recipient_of(p), n)
      /\ complete_proposal(p) => recipient_of(p) \in Accounts
      /\ fail_payout(p) => balances' = r
  BY AcceptedType DEF complete_proposal, after_payout, payable, can_deposit, fail_payout
<1>5. ExecutionMove(p, b, y) =
        IF b # a THEN 0 ELSE If(y = recipient_of(p), n) - If(Keeps(y, a), n)
  BY DEF ExecutionMove
<1> HIDE DEF a, n, R, r
<1>6. r \in Balances
  BY <1>1, <1>3, WithdrawnType
<1>7. /\ r[b][y] <= balances[b][y] - If(b = a /\ Keeps(y, a), n)
      /\ MinBalance[b] = 1 => r[b][y] = balances[b][y] - If(b = a /\ Keeps(y, a), n)
  <2>1. CASE is_reserve(a)
    <3>1. Keeps(y, a) <=> y = R
      BY <1>1, <2>1 DEF Keeps
    <3> QED
      BY <1>1, <1>2, <1>3, <2>1, <3>1, WithdrawnMoves DEF If
  <2>2. CASE ~is_reserve(a)
    BY <1>1, <1>3, <2>2 DEF If, Keeps, Balances
  <2> QED
    BY <2>1, <2>2
<1>8. balances[b][y] \in Int /\ r[b][y] \in Int
  BY <1>1, <1>6 DEF Balances
<1>9. ASSUME complete_proposal(p)
      PROVE  /\ balances'[b][y] <= balances[b][y] + ExecutionMove(p, b, y)
             /\ MinBalance[b] = 1 =>
                   balances'[b][y] = balances[b][y] + ExecutionMove(p, b, y)
  <2> DEFINE to == recipient_of(p)
  <2>1. to \in Accounts /\ balances' = deposited(r, a, to, n)
    BY <1>4, <1>9
  <2>2. /\ balances'[b][y] <= r[b][y] + If(b = a /\ y = to, n)
        /\ MinBalance[b] = 1 => balances'[b][y] = r[b][y] + If(b = a /\ y = to, n)
    BY <1>1, <1>6, <2>1, DepositedMoves
  <2>3. balances'[b][y] \in Int
    <3>1. balances' \in Balances
      BY <1>1, <1>6, <2>1, DepositedType
    <3> QED
      BY <3>1 DEF Balances
  <2>4. ExecutionMove(p, b, y) = If(b = a /\ y = to, n) - If(b = a /\ Keeps(y, a), n)
    BY <1>1, <1>5 DEF If
  <2>5. If(b = a /\ y = to, n) \in Int /\ If(b = a /\ Keeps(y, a), n) \in Int
    BY <1>1 DEF If
  <2>6. balances'[b][y] <= balances[b][y] + ExecutionMove(p, b, y)
    BY <1>7, <1>8, <2>2, <2>3, <2>4, <2>5
  <2>7. MinBalance[b] = 1 => balances'[b][y] = balances[b][y] + ExecutionMove(p, b, y)
    BY <1>7, <1>8, <2>2, <2>3, <2>4, <2>5
  <2> QED
    BY <2>6, <2>7
<1>10. fail_payout(p) => balances'[b][y] <= balances[b][y]
  <2>1. If(b = a /\ Keeps(y, a), n) \in Nat
    BY <1>1 DEF If
  <2>2. r[b][y] <= balances[b][y]
    BY <1>7, <1>8, <2>1, Inequalities, Zenon
  <2> QED
    BY <1>4, <2>2, Zenon
<1> QED
  BY <1>9, <1>10

----------------------------------------------------------------------------
\* The amount of every executed proposal is a number.
Known == {p \in Proposals : amount_of(p) \in Nat}
AmountsKnown == ExecutionEvents \in Seq(Known)

\* What the events tell are integers.
LEMMA MovesType ==
    ASSUME NEW a \in AssetIds, NEW x \in Accounts
    PROVE  /\ \A e \in DepositEvent : DepositMove(e, a, x) \in Int
           /\ \A p \in Known : ExecutionMove(p, a, x) \in Int
BY DEF DepositMove, ExecutionMove, DepositEvent, Known, If

\* How the explanation grows with an event.
LEMMA ExplainedGrows ==
    ASSUME TypeOK, AmountsKnown, NEW a \in AssetIds, NEW x \in Accounts
    PROVE  /\ Explained(a, x) \in Int
           /\ UNCHANGED <<DepositEvents, ExecutionEvents>> => Explained(a, x)' = Explained(a, x)
           /\ \A e \in DepositEvent :
                 Emits(e) /\ UNCHANGED ExecutionEvents
                 => Explained(a, x)' = Explained(a, x) + DepositMove(e, a, x)
           /\ \A p \in Known :
                 Executes(p) /\ UNCHANGED DepositEvents
                 => Explained(a, x)' = Explained(a, x) + ExecutionMove(p, a, x)
<1> DEFINE D == [e \in DepositEvent |-> DepositMove(e, a, x)]
           E == [p \in Known |-> ExecutionMove(p, a, x)]
           Total(s, t) == Endowment[a][x] + SumOver(D, s) + SumOver(E, t)
<1>1. ASSUME NEW s \in Seq(DepositEvent), NEW t \in Seq(Known)
      PROVE  Endowment[a][x] + SumFunction([i \in 1 .. Len(s) |-> DepositMove(s[i], a, x)])
               + SumFunction([i \in 1 .. Len(t) |-> ExecutionMove(t[i], a, x)]) = Total(s, t)
  <2>1. /\ [i \in 1 .. Len(s) |-> DepositMove(s[i], a, x)] = [i \in 1 .. Len(s) |-> D[s[i]]]
        /\ [i \in 1 .. Len(t) |-> ExecutionMove(t[i], a, x)] = [i \in 1 .. Len(t) |-> E[t[i]]]
    OBVIOUS
  <2> QED
    BY <2>1, Zenon DEF SumOver
<1>2. D \in [DepositEvent -> Int] /\ E \in [Known -> Int]
  BY MovesType
<1>3. /\ \A e \in DepositEvent : D[e] = DepositMove(e, a, x)
      /\ \A p \in Known : E[p] = ExecutionMove(p, a, x)
  OBVIOUS
<1>4. DepositEvents \in Seq(DepositEvent) /\ ExecutionEvents \in Seq(Known)
  BY BooksTypes DEF AmountsKnown
<1>5. Explained(a, x) = Total(DepositEvents, ExecutionEvents)
  BY <1>1, <1>4, Zenon DEF Explained, DepositMoves, ExecutionMoves
<1>6. /\ DepositEvents' \in Seq(DepositEvent) /\ ExecutionEvents' \in Seq(Known)
      => Explained(a, x)' = Total(DepositEvents', ExecutionEvents')
  <2>1. Explained(a, x)' =
          Endowment[a][x]
          + SumFunction([i \in 1 .. Len(DepositEvents') |-> DepositMove(DepositEvents'[i], a, x)])
          + SumFunction([i \in 1 .. Len(ExecutionEvents') |->
                            ExecutionMove(ExecutionEvents'[i], a, x)])
    BY DEF Explained, DepositMoves, ExecutionMoves, DepositMove, ExecutionMove, Keeps
  <2> QED
    BY <1>1, <2>1, Zenon
<1>7. Endowment[a][x] \in Int
  BY TransactorAssumption
<1> HIDE DEF D, E
<1>8. SumOver(D, DepositEvents) \in Int /\ SumOver(E, ExecutionEvents) \in Int
  BY <1>2, <1>4, SumOverSequence, Zenon
<1>9. ASSUME NEW e \in DepositEvent, Emits(e), UNCHANGED ExecutionEvents
      PROVE  Explained(a, x)' = Explained(a, x) + DepositMove(e, a, x)
  <2>1. /\ DepositEvents' \in Seq(DepositEvent)
        /\ SumOver(D, DepositEvents') = SumOver(D, DepositEvents) + DepositMove(e, a, x)
    <3>1. SumOver(D, Append(DepositEvents, e)) = SumOver(D, DepositEvents) + D[e]
      BY <1>2, <1>4, SumOverAppend, Zenon
    <3>2. DepositEvents' = Append(DepositEvents, e)
      BY <1>9 DEF Emits
    <3>3. Append(DepositEvents, e) \in Seq(DepositEvent)
      BY <1>4
    <3> QED
      BY <1>3, <3>1, <3>2, <3>3, Zenon
  <2>2. Explained(a, x)' = Endowment[a][x] + (SumOver(D, DepositEvents) + DepositMove(e, a, x))
                           + SumOver(E, ExecutionEvents)
    BY <1>4, <1>6, <1>9, <2>1
  <2>3. DepositMove(e, a, x) \in Int
    BY MovesType
  <2> QED
    BY <1>5, <1>7, <1>8, <2>2, <2>3
<1>10. ASSUME NEW p \in Known, Executes(p), UNCHANGED DepositEvents
       PROVE  Explained(a, x)' = Explained(a, x) + ExecutionMove(p, a, x)
  <2>1. /\ ExecutionEvents' \in Seq(Known)
        /\ SumOver(E, ExecutionEvents') = SumOver(E, ExecutionEvents) + ExecutionMove(p, a, x)
    <3>1. SumOver(E, Append(ExecutionEvents, p)) = SumOver(E, ExecutionEvents) + E[p]
      BY <1>2, <1>4, SumOverAppend, Zenon
    <3>2. ExecutionEvents' = Append(ExecutionEvents, p)
      BY <1>10 DEF Executes
    <3>3. Append(ExecutionEvents, p) \in Seq(Known)
      BY <1>4
    <3> QED
      BY <1>3, <3>1, <3>2, <3>3, Zenon
  <2>2. Explained(a, x)' = Endowment[a][x] + SumOver(D, DepositEvents)
                           + (SumOver(E, ExecutionEvents) + ExecutionMove(p, a, x))
    BY <1>4, <1>6, <1>10, <2>1
  <2>3. ExecutionMove(p, a, x) \in Int
    BY MovesType
  <2> QED
    BY <1>5, <1>7, <1>8, <2>2, <2>3
<1>11. UNCHANGED <<DepositEvents, ExecutionEvents>> => Explained(a, x)' = Explained(a, x)
  BY <1>4, <1>5, <1>6
<1>12. Explained(a, x) \in Int
  BY <1>5, <1>7, <1>8
<1> QED
  BY <1>9, <1>10, <1>11, <1>12

----------------------------------------------------------------------------
\* The inductive invariant: the two statements about the balances, with the
\* types and the amounts that make the sums numbers.
BooksInv == TypeOK /\ AmountsKnown /\ BooksBalance /\ NothingFromNothing

\* Nothing has moved when the bridge starts.
LEMMA BooksInit == Init => BooksInv
<1> SUFFICES ASSUME Init PROVE BooksInv
  OBVIOUS
<1>1. TypeOK
  BY TypeInit
<1>2. DepositEvents = <<>> /\ ExecutionEvents = <<>> /\ balances = Endowment
  BY DEF Init, BalancesInit
<1>3. AmountsKnown
  BY <1>2 DEF AmountsKnown
<1>4. \A a \in AssetIds, x \in Accounts : balances[a][x] \in Nat /\ Explained(a, x) = balances[a][x]
  <2> TAKE a \in AssetIds, x \in Accounts
  <2>1. Endowment[a][x] \in Nat
    BY TransactorAssumption
  <2>2. SumFunction(DepositMoves(a, x)) = 0 /\ SumFunction(ExecutionMoves(a, x)) = 0
    BY <1>2, SumOfNone DEF DepositMoves, ExecutionMoves
  <2> QED
    BY <1>2, <2>1, <2>2 DEF Explained
<1>5. BooksBalance /\ NothingFromNothing
  BY <1>4 DEF BooksBalance, NothingFromNothing
<1> QED
  BY <1>1, <1>3, <1>5 DEF BooksInv

\* A step that moves every balance by what it adds to the explanation keeps the
\* books; one that only takes keeps the inequality.
LEMMA BooksKept ==
    ASSUME BooksInv, TypeOK', AmountsKnown',
           NEW M \in [AssetIds -> [Accounts -> Int]],
           Explains(M), MovesAtMost(M), MovesExactly(M), UNCHANGED LastFailure
    PROVE  BooksInv'
<1>1. ASSUME NEW a \in AssetIds, NEW x \in Accounts
      PROVE  /\ balances[a][x] \in Int /\ balances'[a][x] \in Int
             /\ Explained(a, x) \in Int /\ M[a][x] \in Int
  <2>1. Explained(a, x) \in Int
    BY ExplainedGrows DEF BooksInv
  <2>2. balances[a][x] \in Int
    BY BooksTypes DEF BooksInv
  <2>3. balances'[a][x] \in Int
    BY NewBalances
  <2> QED
    BY <2>1, <2>2, <2>3
<1>2. ASSUME NEW a \in AssetIds, NEW x \in Accounts
      PROVE  /\ Explained(a, x)' = Explained(a, x) + M[a][x]
             /\ balances'[a][x] <= balances[a][x] + M[a][x]
             /\ MinBalance[a] = 1 => balances'[a][x] = balances[a][x] + M[a][x]
  BY DEF Explains, MovesAtMost, MovesExactly
<1>3. NothingFromNothing'
  <2> SUFFICES ASSUME NEW a \in AssetIds, NEW x \in Accounts
               PROVE  balances'[a][x] <= Explained(a, x)'
    BY DEF NothingFromNothing
  <2>1. balances[a][x] <= Explained(a, x)
    BY DEF BooksInv, NothingFromNothing
  <2>2. balances'[a][x] <= Explained(a, x) + M[a][x]
    BY <1>1, <1>2, <2>1, Inequalities, Zenon
  <2> QED
    BY <1>2, <2>2, Zenon
<1>4. BooksBalance'
  <2> SUFFICES ASSUME LastFailure' = None, NEW a \in AssetIds, NEW x \in Accounts,
                      MinBalance[a] = 1
               PROVE  balances'[a][x] = Explained(a, x)'
    BY DEF BooksBalance
  <2>1. balances[a][x] = Explained(a, x)
    BY DEF BooksInv, BooksBalance
  <2> QED
    BY <1>2, <2>1
<1> QED
  BY <1>3, <1>4 DEF BooksInv

\* Steps that move no money and emit no event of a transfer.
LEMMA BooksUntouched ==
    ASSUME BooksInv, TypeOK',
           UNCHANGED <<balances, DepositEvents, ExecutionEvents>>,
           LastFailure' = None => LastFailure = None
    PROVE  BooksInv'
<1>1. AmountsKnown'
  BY DEF BooksInv, AmountsKnown, Known
<1>2. ASSUME NEW a \in AssetIds, NEW x \in Accounts
      PROVE  Explained(a, x)' = Explained(a, x)
  BY ExplainedGrows DEF BooksInv
<1>3. BooksBalance'
  BY <1>2 DEF BooksInv, BooksBalance
<1>4. NothingFromNothing'
  BY <1>2 DEF BooksInv, NothingFromNothing
<1> QED
  BY <1>1, <1>3, <1>4 DEF BooksInv

\* A deposit moves what its event tells.
LEMMA BooksDeposit ==
    ASSUME BooksInv, TypeOK', NEW origin \in Origins, NEW asset \in AssetIds,
           NEW amount \in Amounts, NEW dest \in Dests, deposit(origin, asset, amount, dest)
    PROVE  BooksInv'
<1>1. TypeOK /\ AmountsKnown
  BY DEF BooksInv
<1>2. PICK e \in DepositEvent :
        Emits(e) /\ MovesAtMost(DepositTells(e)) /\ MovesExactly(DepositTells(e))
  BY <1>1, DepositTold
<1>3. UNCHANGED ExecutionEvents /\ UNCHANGED LastFailure
  BY DEF deposit
<1>4. AmountsKnown'
  BY <1>1, <1>3 DEF AmountsKnown, Known
<1>5. DepositTells(e) \in [AssetIds -> [Accounts -> Int]]
  BY MovesType DEF DepositTells
<1>6. Explains(DepositTells(e))
  <2>1. \A b \in AssetIds, y \in Accounts : Explained(b, y)' = Explained(b, y) + DepositMove(e, b, y)
    BY <1>1, <1>2, <1>3, ExplainedGrows
  <2> QED
    BY <2>1 DEF Explains, DepositTells
<1> QED
  BY <1>2, <1>3, <1>4, <1>5, <1>6, BooksKept

\* One turn of the loop of execute_proposal: a refused proposal moves nothing, a
\* payout that fails takes without an event, an executed one moves what its
\* event tells.
LEMMA BooksExecution == BooksInv /\ TypeOK' /\ execute_next => BooksInv'
<1> SUFFICES ASSUME BooksInv, TypeOK', execute_next PROVE BooksInv'
  OBVIOUS
<1>1. TypeOK /\ AmountsKnown
  BY DEF BooksInv
<1>2. PICK p \in Proposals : reject_proposal(p) \/ fail_payout(p) \/ complete_proposal(p)
  <2>1. batch # <<>> /\ batch \in Seq(Proposals)
    <3>1. batch # <<>>
      BY DEF execute_next
    <3> QED
      BY <1>1, <3>1, BooksTypes, Zenon
  <2>2. Head(batch) \in Proposals
    BY <2>1
  <2> QED
    BY <2>2 DEF execute_next
<1>3. UNCHANGED DepositEvents
  BY DEF execute_next
<1>4. reject_proposal(p) \/ fail_payout(p) => LastFailure' # None
  <2>1. reject_proposal(p) \/ fail_payout(p) => \E error \in Errors : LastFailure' = failure(p, error)
    BY DEF reject_proposal, fail_payout, rejection, Errors
  <2>2. \A error \in Errors : failure(p, error) \in FailureEvent
    BY ProposalType DEF failure, FailureEvent
  <2> QED
    BY <2>1, <2>2, FailureAssumption
<1>5. CASE reject_proposal(p)
  BY <1>3, <1>4, <1>5, BooksUntouched DEF reject_proposal
<1>6. CASE fail_payout(p)
  <2>1. UNCHANGED ExecutionEvents
    BY <1>6 DEF fail_payout
  <2>2. AmountsKnown'
    BY <1>1, <2>1 DEF AmountsKnown, Known
  <2>3. ASSUME NEW a \in AssetIds, NEW x \in Accounts
        PROVE  /\ balances'[a][x] <= balances[a][x] /\ Explained(a, x)' = Explained(a, x)
               /\ balances'[a][x] \in Int /\ balances[a][x] \in Int /\ Explained(a, x) \in Int
    <3>1. balances'[a][x] \in Int /\ balances[a][x] \in Int
      BY <1>1, BooksTypes, NewBalances, Zenon
    <3>2. balances'[a][x] <= balances[a][x]
      BY <1>1, <1>6, ExecutionTold
    <3> QED
      BY <1>1, <1>3, <2>1, <3>1, <3>2, ExplainedGrows, Zenon
  <2>4. BooksBalance'
    BY <1>4, <1>6 DEF BooksBalance
  <2>5. NothingFromNothing'
    <3> SUFFICES ASSUME NEW a \in AssetIds, NEW x \in Accounts
                 PROVE  balances'[a][x] <= Explained(a, x)'
      BY DEF NothingFromNothing
    <3>1. balances[a][x] <= Explained(a, x)
      BY DEF BooksInv, NothingFromNothing
    <3> QED
      BY <2>3, <3>1
  <2> QED
    BY <2>2, <2>4, <2>5 DEF BooksInv
<1>7. CASE complete_proposal(p)
  <2>1. Executes(p) /\ UNCHANGED LastFailure /\ rejection(p) = "Ok"
    BY <1>7 DEF complete_proposal, Executes
  <2>2. p \in Known
    BY <2>1, AcceptedType DEF Known
  <2>3. AmountsKnown'
    <3>1. ExecutionEvents' \in Seq(Known)
      BY <1>1, <2>1, <2>2 DEF AmountsKnown, Executes
    <3> QED
      BY <3>1 DEF AmountsKnown, Known
  <2>4. ExecutionTells(p) \in [AssetIds -> [Accounts -> Int]]
    BY <2>2, MovesType DEF ExecutionTells
  <2>5. Explains(ExecutionTells(p))
    <3>1. \A b \in AssetIds, y \in Accounts :
            Explained(b, y)' = Explained(b, y) + ExecutionMove(p, b, y)
      BY <1>1, <1>3, <2>1, <2>2, ExplainedGrows
    <3> QED
      BY <3>1 DEF Explains, ExecutionTells
  <2>6. MovesAtMost(ExecutionTells(p)) /\ MovesExactly(ExecutionTells(p))
    BY <1>1, <1>7, ExecutionTold, Zenon
  <2> QED
    BY <2>1, <2>3, <2>4, <2>5, <2>6, BooksKept
<1> QED
  BY <1>2, <1>5, <1>6, <1>7

\* Every step keeps the books.
LEMMA BooksStep == BooksInv /\ [Next]_vars => BooksInv'
<1> SUFFICES ASSUME BooksInv, [Next]_vars PROVE BooksInv'
  OBVIOUS
<1>1. TypeOK'
  BY TypeStep DEF BooksInv
<1>2. CASE administer
  BY <1>1, <1>2, AdministerFrame, BooksUntouched
<1>3. CASE configure
  BY <1>1, <1>3, BooksUntouched DEF configure, moneyVars, eventVars
<1>4. CASE on_runtime_upgrade
  BY <1>1, <1>4, BooksUntouched DEF on_runtime_upgrade, moneyVars, eventVars
<1>5. CASE \E origin \in Origins, asset \in AssetIds, amount \in Amounts, dest \in Dests :
              deposit(origin, asset, amount, dest)
  BY <1>1, <1>5, BooksDeposit
<1>6. CASE \E proposals \in Batches, signer \in MpcAddresses : execute_proposal(proposals, signer)
  BY <1>1, <1>6, BooksUntouched DEF execute_proposal, eventVars
<1>7. CASE execute_next
  BY <1>1, <1>7, BooksExecution
<1>8. CASE UNCHANGED vars
  BY <1>1, <1>8, BooksUntouched DEF vars, moneyVars, eventVars
<1> QED
  BY <1>2, <1>3, <1>4, <1>5, <1>6, <1>7, <1>8 DEF Next

\* The events explain every balance to the last unit until a proposal fails,
\* for any number of deposits and proposals: deposit and
\* execute_proposal_internal move exactly what they announce.
THEOREM EventsExplainBalances == Spec => []BooksBalance
<1>1. BooksInv => BooksBalance
  BY DEF BooksInv
<1> QED
  BY BooksInit, BooksStep, <1>1, PTL DEF Spec

\* No account ever holds more than the events explain, whatever fails:
\* the swallowed error of a payout and the dust rule only destroy value.
THEOREM NothingIsCreated == Spec => []NothingFromNothing
<1>1. BooksInv => NothingFromNothing
  BY DEF BooksInv
<1> QED
  BY BooksInit, BooksStep, <1>1, PTL DEF Spec

----------------------------------------------------------------------------
\* A Deposit event carries the converted amount.
AmountsConverted ==
    \A i \in 1 .. Len(DepositEvents) :
        DepositEvents[i].deposit_data = convert_to(DepositEvents[i].asset, DepositEvents[i].bridged)

\* Only deposit emits the event, with the amount it converted.
LEMMA ConvertedStep == TypeOK /\ AmountsConverted /\ [Next]_vars => AmountsConverted'
<1> SUFFICES ASSUME TypeOK, AmountsConverted, [Next]_vars PROVE AmountsConverted'
  OBVIOUS
<1>1. UNCHANGED DepositEvents => AmountsConverted'
  BY DEF AmountsConverted
<1>2. CASE administer
  BY <1>1, <1>2, AdministerFrame
<1>3. CASE configure \/ on_runtime_upgrade \/ execute_next \/ UNCHANGED vars
  BY <1>1, <1>3 DEF configure, on_runtime_upgrade, execute_next, vars, moneyVars, eventVars
<1>4. CASE \E proposals \in Batches, signer \in MpcAddresses : execute_proposal(proposals, signer)
  BY <1>1, <1>4 DEF execute_proposal, eventVars
<1>5. ASSUME NEW origin \in Origins, NEW a \in AssetIds, NEW x \in Amounts,
             NEW dest \in Dests, deposit(origin, a, x, dest)
      PROVE  AmountsConverted'
  <2>1. PICK e \in DepositEvent : Emits(e) /\ e.deposit_data = convert_to(e.asset, e.bridged)
    BY <1>5, DepositTold
  <2>2. PICK n : n = Len(DepositEvents)
    BY Zenon
  <2>3. /\ Len(DepositEvents') = n + 1
        /\ DepositEvents'[n + 1] = e
        /\ \A i \in 1 .. n : DepositEvents'[i] = DepositEvents[i]
        /\ \A i \in 1 .. n + 1 : i \in 1 .. n \/ i = n + 1
    BY <2>1, <2>2, BooksTypes, Appended DEF Emits
  <2>4. \A i \in 1 .. n + 1 :
          DepositEvents'[i].deposit_data
             = convert_to(DepositEvents'[i].asset, DepositEvents'[i].bridged)
    BY <2>1, <2>2, <2>3 DEF AmountsConverted
  <2> QED
    BY <2>3, <2>4, Zenon DEF AmountsConverted
<1> QED
  BY <1>2, <1>3, <1>4, <1>5 DEF Next

\* No Deposit event announces more than the sender paid beyond the fee, for
\* any decimals, any fee and any width of the fixed point type.
THEOREM DepositsNotOverstated == Spec => []NoOverstatement
<1>1. Init => AmountsConverted
  BY DEF Init, AmountsConverted
<1>2. TypeOK /\ AmountsConverted => NoOverstatement
  <2> SUFFICES ASSUME TypeOK, AmountsConverted, NEW i \in 1 .. Len(DepositEvents),
                      NEW back,
                      back = convert_from(DepositEvents[i].asset, DepositEvents[i].deposit_data),
                      back # None
               PROVE  back <= DepositEvents[i].bridged
    BY DEF NoOverstatement
  <2>1. DepositEvents[i] \in DepositEvent
    BY DEF TypeOK
  <2>2. /\ DepositEvents[i].asset \in AssetIds /\ DepositEvents[i].bridged \in Nat
        /\ DepositEvents[i].deposit_data # None
    BY <2>1, TraitsAssumption DEF DepositEvent
  <2> QED
    BY <2>2, RoundTrip DEF AmountsConverted
<1> QED
  BY TypeInit, TypeStep, ConvertedStep, <1>1, <1>2, PTL DEF Spec

============================================================================
