SPECIFICATION TripSpec
CONSTANTS
    Domains = {1}
    dec16 = dec16
    dec17 = dec17
    dec18 = dec18
    dec19 = dec19
    dec20 = dec20
    unlisted = unlisted
    AssetIds <- MC_Assets
    MaxU128 = 299
    None = None
    Decimals <- MC_Decimals
    MaxExp = 2
    Pow10 <- MC_Pow10
    FixedMax = 120
    WORD_BYTES = 2
    ByteBase = 18
    EncodedLocations <- MC_EncodedLocations
    Amounts <- MC_Amounts
    Garbles = {1, 17}
INVARIANTS
    TripTypeOK
    NeverGains
    ExactInRange
    AcceptsExactlyWhatIsCreated
PROPERTY
    LossOnlyOnce
CHECK_DEADLOCK FALSE
