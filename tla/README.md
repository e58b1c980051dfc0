# A verification project for the Sygma Substrate pallets

TLA+ modules that model the pallets of this repository, TLC configurations that
check them on small instances, and TLAPS proofs of the properties that matter
most for every value of the constants. `PROJECT.json` indexes the project: which
definition models which lines, what each run checks, what can go wrong where.

## The system

A chain that runs these pallets sends assets to other *domains* (EVM chains) and
receives assets from them. Relayers outside the chain watch `Deposit` events and
submit `execute_proposal` batches signed by one multi-party (MPC) key.

| Part | Source | Role | Module |
|---|---|---|---|
| bridge pallet | `bridge/src/lib.rs`, `migration.rs` | deposits out, proposals in, pausing, registration, MPC address | `SygmaBridge`, `UsedNonces`, `CallResults` (errors), `DepositData` (bytes) |
| access segregator | `access-segregator/src/lib.rs` | one delegate per privileged call | `AccessSegregator`, `AccessAudit` |
| fee handlers and router | `basic-fee-handler`, `percentage-fee-handler`, `fee-handler-router` | what a deposit costs | `BasicFeeHandler`, `PercentageFeeHandler`, `FeeHandlerRouter`, `FeeSchedule` |
| runtime adapters | `substrate-node/standalone/runtime/src/lib.rs` | decimals, reserve test, destination parsing, asset transactors | `DecimalConverter`, `DecimalRoundTrip`, `AssetTransactor`, parts of `SygmaBridge` |
| shared types | `traits/src/lib.rs` | ids and integers | `SygmaTraits` |
| EIP-712 data | `bridge/src/eip712.rs`, `encode.rs` | the message that is signed | `ProposalSigning` |
| XCM asset transactor, bridge forwarder | `bridge-forwarder/src` | pays a proposal out: to an account here, to the bridge pallet again, or to the XCM bridge | `XcmAssetTransactor` |
| XCM bridge | `xcm-bridge/src/lib.rs` | sends assets on to other parachains | `XcmBridge` (programs), `XcmNetwork` (chains and messages) |
| parachain runtime adapters | `substrate-node/parachain/runtime/src` | as the standalone ones, with the forwarder | `ParachainRuntime` |
| RPC and relayers | `rpc/src/lib.rs`, `runtime-api/src/lib.rs`; relayers are external | which proposals were executed, who submits them again | `BridgeRelay` |
| unit tests, test runtimes | `mock.rs` and the `tests` modules of the pallets | what the authors expect | `MockRuntime`, `PalletTests`, `BridgeTests`, `XcmTests` |
| dynamic fee handler | `dynamic-fee-handler` | empty; the router answers "no fee" | the router's branch only |
| parachain info, weights, benchmarks, nodes, scripts | | constants, generated or third-party code | not modelled: no state of the bridge changes there |

`SygmaBridge` composes everything: a deposit asks the router for a fee, moves
balances with the transactors, converts decimals; every privileged call asks the
access segregator; administrators change fees and grants between transfers.

## How the model corresponds to the code

* **One action is one extrinsic.** Extrinsics of a chain run one after the other
  and FRAME rolls back one that returns an error, so a refused call is no step
  and an action's guard is the conjunction of the call's `ensure!`s and `?`s.
  Interleaving is between extrinsics of different senders: users, relayers, the
  committee, delegates, and the runtime upgrade.
* **`execute_proposal`** is the exception: its loop swallows the error of a
  proposal. It is a step that checks the signature and loads `batch`, then one
  `execute_next` step for each proposal: `reject_proposal` (nothing moved),
  `fail_payout` (the reserve was debited, the recipient could not be paid) or
  `complete_proposal`. Every other action requires `Idle`, an empty `batch`.
* **Storage** keeps its name: `DepositCounts`, `IsPaused` (as the set of domains
  whose entry is true, with `PauseEntries` for the existing keys, because the
  `*_all_domains` loops visit keys), `MpcAddr`, `UsedNonces`, `DestDomainIds`,
  `DestChainIds`, `AssetFees`, `AssetFeeRate`, `HandlerType`, `ExtrinsicAccess`.
  `DepositEvents`, `ExecutionEvents`, `LastFailure`, `RetryEvents` are the events
  of those names; the model's deposit events also carry the asset and the local
  amount, which properties compare with the announced amount.
* **A `u64` word** of the nonce bitmap is the set of its one-bits.
* **Integers.** `MaxU128`, `FixedMax` (integer part of `U112F16::MAX`) and
  `MaxNonce` are constants; runs give them small values so that the limits are
  met, proofs hold for every value. `saturating_mul` and the wrapping `from_num`
  are modelled as such. `Pow10` is a constant that an assumption fixes to the
  saturating powers of ten, so that no recursion is needed.
* **Deposit data** in `SygmaBridge` is abstracted to its length, the declared
  amount and recipient length, and the location the recipient bytes decode to.
  `DepositData` has the bytes; `DecimalRoundTrip` composes it with the converter
  and carries an amount out and back as data, which may be garbled on the way.
* **External code.** Balances and assets pallets and the XCM adapters are modelled
  from how the bridge uses them: a withdrawal burns, a deposit mints, an account
  below the minimum balance is reaped and its dust lost, a deposit that stays
  below the minimum mints nothing (balances) or fails (assets). The fixed point
  crate is modelled as a release build compiles it.
* **Migration.** A chain starts at storage version 0 or 1; `on_runtime_upgrade`
  of `FixMpcAddress` may happen at any time at version 0.

`BridgeChannel` is the abstract specification: a channel with one lane per domain
whose messages out are numbered without gaps, whose messages in are delivered at
most once, which carries messages only on open lanes and once it is ready.
`SygmaBridge!ImplementsChannel` is the refinement: a lane is open when its domain
is registered and not paused, delivered messages are read off the bitmap.

`BridgeRelay` puts relayers around `SygmaBridge`. Inwards, each of `Proposals` is a
deposit on the other chain; a relayer submits what it has seen and what
`isProposalExecuted` denies at the block its node has, which may be old. Outwards,
a `Deposit` event may be missed, and a `Retry` event makes relayers read its block
again.

`XcmBridge` holds the pure part of the XCM bridge: the kind of a transfer, the
program for each kind, the halved fees. `XcmNetwork` runs these programs on a set
of chains with one first-in first-out channel for each pair; a message can arrive
where its asset is unknown or its fee too small, and is then lost, as the executor
traps the assets. `XcmAssetTransactor` puts the payout of a proposal in front: the
vault is debited, then the asset goes to the recipient or to one of two temporary
accounts and on from there. The result of each attempt is kept in `payouts`. A
location is its number of parents, the shape of its interior and its first
junction. `ParachainRuntime` gives the constants of this module the values of the
parachain runtime.

`ProposalSigning` has several deployments with common keys. A message is a term: a
hash is a constructor, which has no collisions, and words are the elements of a
tuple. In `SygmaBridge` this is abstracted to the key that signed the batch.

`BridgeTests` and `XcmTests` contain the repository's own tests as
scripts. A line of a script is a call with the result the test expects, or an
assertion. A refused call must be refused with the error the test names; for this
`CallResults` says which check of each extrinsic fails first. A replay that cannot
do a line stops there, so "every test passes" is that every replay reaches its end.
Amounts are scaled down, keeping the ratios that decide what happens.

`AccessAudit` and `BridgeAudit` add the history, and the books computed from the
events, that some properties need. Definitions marked "Mutant" are plausible
mistakes; each property is shown to notice one of them.

## Runs

`tlc -config <cfg> <module>`; `PROJECT.json` names both for each run.

| Run | What it asks | Bounds |
|---|---|---|
| `access` | Does anyone grant without a chain of delegation from the committee? Does the latest grant alone decide? | two users, two registered and one unregistered extrinsic, histories of 4 grants |
| `fees` | Is a percentage fee affordable and monotone, does a call re-price only its own pair and handler? | two domains, four rates (two must be refused), amounts on both sides of saturation |
| `decimals` | Do round trips create value, lose value in range, or lose value twice? Does `extract_deposit_data` accept exactly what `create_deposit_data` makes? | every amount of a 299-valued `u128`, 16 to 20 decimals, fixed point range 120; words of two bytes, every byte changed, every prefix, one byte appended |
| `bridge_ledger` | Do the events explain every balance to the last unit? Is more announced than taken? Can dust or failures create value? | a local and a remote-reserve asset with minimum balances 1 and 2, 2 deposits, 4 proposals of which one cannot be paid, fee changes |
| `bridge_protocol` | Does any order of administration let a paused, unregistered or unset bridge carry traffic? Is a foreign deposit paid at most once, are deposits numbered without gap up to the nonce limit? Does the pallet implement `BridgeChannel`? | domains 0 and 1, two MPC addresses, the migration, a delegated `pause_bridge`, nonces 63 and 64 in batches of two, nonce limit 2 |
| `bridge_tests` | Does the model agree with 36 unit tests of the bridge, fee and access pallets? | 37 scripts (one test is split in two) |
| `relay` | Is each deposit of the other chain paid out, and only once? Does each `Deposit` event reach the other chain? | two relayers, nonce 32, two deposits out, one dropped extrinsic, one missed event, one pause |
| `signing` | Is a batch accepted that was not signed for this deployment? | three deployments on two chains, three proposals that differ in one field, batches up to 2, two signatures |
| `payouts` | Where is the money of a payout, whatever fails? Is every derivative backed by its reserve? Does a transfer whose fees are covered arrive? | relay chain and three parachains, two payouts to seven kinds of recipient and up to three transfers, a missing route, an unknown asset, a fee that pays for one hop and not for two |
| `xcm_tests` | Does the model agree with the tests of the XCM bridge and of the forwarder? | 3 tests with several amounts, and 6 |
| `failure_moves`, `parachain_outer` | Does the code do what a test or a comment says? | it does not: see below |

The bounds are chosen for the case each run is about. Nonces 63 and 64 are the last
of one word and the first of the next, and 32 collides with 0 if a word is taken
for half as wide; two deposits and a limit of two show numbering and exhaustion;
amounts go round until nothing changes, so a second loss shows; a batch of two
contains a duplicate, a failure before a success, and a later nonce before an earlier one.
`bridge_ledger`, `relay` and `failure_moves` start from a chain on which domains,
fees and the MPC address are set, a state that the actions reach; `bridge_protocol`
starts with only the fees set. Two payouts are one that strands and one after it.

`BooksBalance` is claimed as long as no proposal failed, and for assets with minimum
balance 1; where dust is lost or a payout failed, `NothingFromNothing` says that
money is only lost.

Deadlock is checked in `fees`, `bridge_ledger`, `bridge_protocol` and
`failure_moves`: there is always a call that succeeds. The other runs stop at their
bounds or at the end of a script and do not check it.

### Fairness

The pallets alone only answer calls, so the runs of the pallets alone assume none. Liveness is
checked where a scheduler outside the pallets is part of the question:

* `RelayFairness`: an `execute_proposal` that was started runs to its end, since it
  is one extrinsic. Relayers observe, submit and relay (weak fairness). Block
  authors include an extrinsic that stays in the pool although others come in
  between, and nodes import blocks (strong fairness: both are disabled while a
  batch is executed). The committee unpauses what it paused and asks for a retry
  (strong fairness). The last two are assumptions on operators, not facts about
  the code; without them a paused domain rightly pays nothing. Depositing,
  pausing, dropping and missing are never fair.
* `NetSpec` and `PayoutSpec`: weak fairness of receiving on each channel. XCMP and
  DMP queues deliver in order and are served in every block.
* Replays: weak fairness of the next line; a test runs on until an assertion fails.

### Disagreements between the code and what is written about it

Two are shown by a run that must end in a counterexample:

1. A proposal whose recipient cannot be paid is reported as failed after the
   reserve account was debited, and the debit stays (`FailedProposalMovesNothing`).
2. On the parachain a payout to the outer world is always refused: the transactor
   forwards four junctions, the parser accepts three (`OuterWorldIsForwarded`).

The others were met while modelling. The model does what the code does, and no run
is spent on them:

3. `set_mpc_address` unpauses all domains; the comment of `IsPaused` says the
   bridge should be paused after the address is set.
4. A failed proposal can be executed later, which `relay` relies on; the comment of
   `ProposalAlreadyComplete` says "failed or succeeded".
5. `convert_to` accepts amounts above the maximum its comment states and caps the
   announced amount.
6. The parachain's currency adapter matches the relay chain's asset, so the native
   asset of its own first resource pair cannot be paid out.
7. The parachain's pallet index constants are 9 to 13, `construct_runtime` says 40
   to 44, and the comment above asks for the same values. Calls look grants up by
   the constants, so only grants by the constants take effect.
8. A payout to an unsupported location credits a temporary account; the comment of
   the forwarder's test says it should not, its assertion agrees with the code.

## Proofs

`tlapm <module>` checks them; `PROJECT.json` lists the theorems. Every safety property
and every action property that a passing run checks is also a theorem, except the
replays of tests. Numbers, domains, accounts, batches, chains and histories are not
bounded.

### Assumptions

The named `ASSUME`s of the model, which TLC evaluates for the constants of every run:
constants have their types, the privileged calls are named, `Pow10` holds the
saturating powers of ten. Four say more than types:

* `TransferAssumption`: whoever asks for a transfer is an account on a chain of the
  network, and so is the recipient. Transfers to chains outside are not cut off.
* `BridgeAccountsAssumption`: the vault, the treasury and the two temporary accounts
  are used by the bridge alone and only the vault is endowed; the bridge pallet and
  the XCM bridge keep an asset that both know on the same ledger.
* `BackingAssumption`: an asset id that leads to a chain stands for the ledger of that
  chain's asset, the network is finite, and derivatives are backed at the start.
* `DistinctLedgers`, a hypothesis of **DerivativesAreBacked** alone: no chain keeps the
  assets of two chains on one ledger. `payouts` meets it; the mock runtime of the XCM
  bridge's tests, which has one ledger for two parachains, does not.

### Lemmas

`FoldTheorems` has the facts about sums that the others rest on. The community modules
define a sum by a recursive fold over `CHOOSE`; here it is shown to unfold, to split
off any element and to follow an update, an `Append` and a `Tail`. The prover cannot
instantiate an induction rule with a formula. Induction is done with least
counterexamples instead: `LeastNatural` and `MinimalSet` give one for any set of numbers
or finite sets, `Climb` and `Descend` turn that into a step from `k` to `k + 1` or back.
`DecimalConverterProofs` has the conversion of decimals in both directions: type, range
and rounding.

### Theorems

* `SygmaBridgeProofs`: **TypeCorrectness**, `Spec => []TypeOK`. `TypeOK` is inductive. The
  work is in the lemmas on the operators: a guarded withdrawal leaves a natural
  number, a quote and a converted amount are natural numbers, the first position
  of a resource pair exists and is in range. The other invariants are inductive
  with `TypeOK`. **ReplayProtection** needs both conjuncts of `AtMostOnce`: that the
  bitmap marks exactly the executed nonces is what makes the next execution a new
  one; its step rests on quotient and remainder by 64 identifying a nonce.
  **DepositNumbering** needs, besides the order, that all numbers are below the
  counter. **TrafficAfterSetup** needs that the MPC address, once set, is not cleared.
  **DomainTables**, **PauseIsKept** and **MpcAddrIsFixed** follow from `TypeOK` and one step
  of each action. **ChannelRefinement**, `Spec => ImplementsChannel`: a deposit maps
  to `Send`, a completed proposal to `Deliver`, administration to `Administer`,
  everything else to a stutter.
* `BridgeAuditProofs`: **EventsExplainBalances**, **NothingIsCreated** and
  **DepositsNotOverstated**. The books are sums over the events. Each extrinsic is
  shown to change a balance and the sum by the same amount; a payout that fails,
  and dust, only by less. The inductive invariant `BooksInv` adds `TypeOK` and that the
  amount of every executed proposal could be converted, without which the sum is
  not a number. **DepositsNotOverstated** needs that an event carries the converted
  amount (`AmountsConverted`) and the converter's lemmas.
* `DecimalRoundTripProofs`: **TripTypes**, **TripsNeverGain**, **TripsExactInRange**,
  **TripsLoseOnce** (an action property) and **OnlyCreatedIsAccepted**. The last one is
  about bytes: a word of any width is determined by its value, which is an induction
  over the positions; data that is accepted is then equal, byte by byte, to what
  `create_deposit_data` makes of the result.
* `PalletProofs`: **GrantsAreDelegated** and **GrantsDecide** about the history of grants.
  **OnlySignedBatchesRun**: the terms that stand for hashes are injective, so equal
  messages have equal proposals, chains and contracts. **PercentageAffordable** and
  **QuotesAreMonotone**; their inductive invariant is type correctness with
  `RatesValid`: every stored rate passed the checks of `set_fee_rate`.
  **PricesOnePairAtATime** and **UnselectedHandlersPriceNothing** are action properties.
* `XcmProofs`: **TransfersTyped**, **NothingElseIsStranded** and **VaultIsAccountedFor**. The
  invariant of the network is `NetInv`: what is in the channels are messages that
  `create_instructions` or a forwarding chain can have made (`OnRoute`), for transfers
  that are neither delivered nor lost, and no two for one transfer. That makes
  "delivered" and "lost" exclude each other. For payouts it is kept with the books of
  the vault and the temporary accounts (`PayInv`); each outcome is a table of what the
  four accounts of the bridge gain, which must equal what the totals gain.
* `XcmBackingProofs`: **DerivativesAreBacked**. For a chain and the reserve of another the
  *slack* is the balance of its sovereign account there, less what it has issued and
  what the messages between the two stand for. A step is a few changes of single ledger
  entries and at most one message taken and one put; the effect of each on the slack
  is a lemma, and for every action they add up to no loss. `NetInv` is needed here as
  well: a message that announces a deposit from any other chain than the reserve would
  issue for nothing. So is `DistinctLedgers`, and only where a derivative is issued.

### Model-checked only

* `EveryDepositPaidOut`, `EveryDepositRelayed` and `CoveredIsDelivered` are liveness
  properties under fairness, out of this prover's reach.
* `EveryTestPasses` and `EveryXcmTestPasses` replay given scripts: there is nothing to
  generalise.
* `AtMostOnce` with relayers (`relay`) is proved for the bridge alone, where any
  batch may be submitted at any time.

## Not modelled

* **The signature scheme.** Recovery of a public key and keccak are ideal
  functions, so the four `verify_mpc_signature_*` tests, which use real keys, and
  the two tests of byte padding against hexadecimal constants are not replayed.
  Two tests of the forwarder only compare an event with its arguments.
* **The XCM executor, queues and weights.** `XcmNetwork` models what the programs of
  this repository make them do. Fees are one constant for each hop.
* **The parachain's pallet indices**, two tables of constants (see above), and **its
  decimal converter**, which repeats the standalone runtime's.
* **Composition of payouts with the whole bridge.** `XcmAssetTransactor` starts at the
  withdrawal of `execute_proposal_internal`; the deposit of the outer-world branch is
  its fee and its transfers. Signature, nonce and pause are in `SygmaBridge`.
* **Other pallets of the two runtimes** are third-party configuration.

Weights, benchmarks, parachain info, node binaries and scripts stay out: they
change no state of the bridge.
