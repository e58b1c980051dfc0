-------------------------- MODULE DecimalRoundTrip --------------------------
(***************************************************************************)
(* An amount of one asset is bridged out and back, again and again: deposit *)
(* puts convert_to(amount) into the deposit data the relayers carry, and    *)
(* execute_proposal_internal pays convert_from of the amount it extracts    *)
(* from the data of a proposal.  No fee is taken, so any change of the      *)
(* amount is the conversions' doing.  The data may also be garbled, in a    *)
(* byte or in its length; the pallet then sees what nobody created.         *)
(***************************************************************************)
EXTENDS DecimalConverter, DepositData

CONSTANTS
    Amounts,    \* bound: the local amounts a round trip starts with
    Garbles     \* bound: by how much a byte is changed, and which are appended

ASSUME RoundTripAssumption == Amounts \subseteq U128 /\ Garbles \subseteq Bytes

VARIABLES
    asset,      \* the asset bridged
    recipient,  \* and where to: the bytes of a location
    start,      \* the amount before the first transfer
    held,       \* the local amount before the latest transfer out
    data,       \* the deposit data on the way, None at home
    garbled,    \* the data is not what was created
    settled     \* a round trip was completed

tripVars == <<asset, recipient, start, held, data, garbled, settled>>

TripInit ==
    /\ asset \in AssetIds
    /\ recipient \in EncodedLocations
    /\ start \in Amounts
    /\ held = start
    /\ data = None
    /\ garbled = FALSE /\ settled = FALSE

BridgeOut ==
    /\ data = None
    /\ convert_to(asset, held) # None
    /\ data' = create_deposit_data(convert_to(asset, held), recipient)
    /\ UNCHANGED <<asset, recipient, start, held, garbled, settled>>

\* The amount paid for data, None if the proposal fails.
paid(d) ==
    LET extracted == extract_deposit_data(d)
    IN  IF extracted = InvalidDepositData THEN None ELSE convert_from(asset, extracted[1])

BridgeBack ==
    /\ data # None /\ ~garbled
    /\ paid(data) # None
    /\ held' = paid(data)
    /\ data' = None
    /\ settled' = TRUE
    /\ UNCHANGED <<asset, recipient, start, garbled>>

\* A byte changes, the data is cut short anywhere, or a byte is added.
garblings(d) ==
    {[d EXCEPT ![i] = (@ + b) % ByteBase] : i \in DOMAIN d, b \in Garbles}
    \cup {SubSeq(d, 1, n) : n \in 0 .. Len(d) - 1}
    \cup {Append(d, b) : b \in Garbles}

Garble ==
    /\ data # None /\ ~garbled
    /\ \E d \in garblings(data) : data' = d
    /\ garbled' = TRUE
    /\ UNCHANGED <<asset, recipient, start, held, settled>>

TripNext == BridgeOut \/ BridgeBack \/ Garble

TripSpec == TripInit /\ [][TripNext]_tripVars

\* Every amount the converter returns fits the u128 it is stored in, and every
\* word of the data its bytes.
TripTypeOK ==
    /\ asset \in AssetIds /\ recipient \in EncodedLocations
    /\ start \in U128 /\ held \in U128 /\ convert_to(asset, held) \in U128 \cup {None}
    /\ data # None => \A i \in DOMAIN data : data[i] \in Bytes
    /\ garbled \in BOOLEAN /\ settled \in BOOLEAN

----------------------------------------------------------------------------
Exp == IF Decimals[asset] >= 18 THEN Decimals[asset] - 18 ELSE 18 - Decimals[asset]

\* Bridging creates no value: however often an amount goes out and back, what
\* is held never exceeds what was first sent, also where the fixed point type
\* wraps or saturates (convert_to and convert_from composed).
NeverGains ==
    /\ held <= start
    /\ data # None /\ ~garbled /\ paid(data) # None => paid(data) <= held

\* extract_deposit_data inverts create_deposit_data and accepts nothing else:
\* what deposit created yields its amount and location, and data that is
\* accepted, garbled or not, is what create_deposit_data makes from the amount
\* and the recipient bytes, which begin with the location.
AcceptsExactlyWhatIsCreated ==
    data # None =>
        LET extracted == extract_deposit_data(data)
            bytes == SubSeq(data, 2 * WORD_BYTES + 1, Len(data))
        IN  /\ ~garbled => extracted = <<convert_to(asset, held), recipient>>
            /\ extracted # InvalidDepositData =>
                  /\ data = create_deposit_data(extracted[1], bytes)
                  /\ Begins(extracted[2], bytes)

\* Below the maximum the comments state, an asset of at most 18 decimals loses
\* nothing: the conversion is exact in both directions.
ExactInRange ==
    /\ Decimals[asset] # None
    /\ Decimals[asset] <= 18
    /\ start * Pow10[Exp] <= FixedMax
    => held = start

\* Only the first trip can lose value (the digits below 18 decimals, or what
\* exceeds the fixed point range); every later trip returns what it took.
LossOnlyOnce == [][settled => held' = held]_tripVars

=============================================================================
