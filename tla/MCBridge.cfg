SPECIFICATION FeesSetSpec
CONSTANTS
    alice = alice
    treasury = treasury
    vault = vault
    native = native
    token = token
    ridNative = ridNative
    ridToken = ridToken
    ridUnbound = ridUnbound
    here = here
    nowhere = nowhere
    mpc = mpc
    None = None
    Committee = Committee
    Unsigned = Unsigned
    OtherJunction = OtherJunction
    ZeroAddress = ZeroAddress
    Users = {alice}
    Accounts = {alice, treasury, vault}
    NativeAsset = native
    Locations = {here, nowhere}
    ResourceIds = {ridNative, ridToken, ridUnbound}
    FeeReserveAccount = treasury
    AccountOf <- MC_AccountOf
    AssetLocation <- MC_AssetLocation
    Decimals <- MC_Decimals
    MaxExp = 1
    Pow10 <- MC_Pow10
    MaxU128 = 100000
    FixedMax = 500
    ResourcePairs <- MC_ResourcePairs
    ReserveAccounts <- MC_ReserveAccounts
    Endowment <- MC_Endowment
    Extrinsics <- MC_Extrinsics
    RegisteredExtrinsics <- MC_Extrinsics
    FeeRates = {}
    Dests <- MC_Dests
    AssetIds = {native}
    ForeignAssets = {}
    Domains = {0, 1}
    ChainIds = {c1}
    Grantable <- MC_Grantable
    MpcAddresses = {mpc, mpc2}
    MigrationAddress = mpc2
    RetryHeights = {5}
    FeeAmounts = {1}
    HandlerChoices = {"BasicFeeHandler"}
    MaxNonce = 2
    MinBalance <- MC_MinOne
    Nonces = {63, 64}
    Amounts = {3}
    Proposals <- MC_EdgeProposals
    Batches <- MC_EdgeBatches
INVARIANTS
    TrafficNeedsMpc
    DomainTablesAgree
    NonceSequence
    AtMostOnce
PROPERTIES
    PauseHolds
    MpcAddrFixed
    ImplementsChannel
