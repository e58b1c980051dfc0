SPECIFICATION ReplaySpec
CONSTANTS
    alice = alice
    bob = bob
    charlie = charlie
    treasury = treasury
    bridgeNative = bridgeNative
    bridgeOther = bridgeOther
    native = native
    usdt = usdt
    astr = astr
    unbound = unbound
    ridNative = ridNative
    ridUsdt = ridUsdt
    ridAstr = ridAstr
    ridUnknown = ridUnknown
    bobLocation = bobLocation
    aliceLocation = aliceLocation
    mpc = mpc
    otherMpc = otherMpc
    None = None
    Committee = Committee
    Unsigned = Unsigned
    OtherJunction = OtherJunction
    ZeroAddress = ZeroAddress
    Users = {alice, bob, charlie}
    Accounts <- MockAccounts
    NativeAsset = native
    Locations = {bobLocation, aliceLocation}
    ResourceIds = {ridNative, ridUsdt, ridAstr, ridUnknown}
    FeeReserveAccount = treasury
    AccountOf <- MockAccountOf
    AssetLocation <- MockAssetLocation
    Decimals <- MockDecimals
    MaxExp = 1
    Pow10 <- MockPow10
    MaxU128 = 2000000000
    FixedMax = 100000000
    ResourcePairs <- MockResourcePairs
    ReserveAccounts <- bridge_accounts_generator
    Endowment <- MockEndowment
    Extrinsics <- MockRegistered
    RegisteredExtrinsics <- MockRegistered
    FeeRates = {}
    Dests = {}
    AssetIds = {native, usdt, astr, unbound}
    ForeignAssets = {usdt, astr}
    ChainIds = {0, 1, 2}
    Grantable = {}
    MpcAddresses = {mpc, otherMpc}
    MigrationAddress = mpc
    RetryHeights = {}
    Domains = {0, 1, 2, 3}
    FeeAmounts = {}
    HandlerChoices = {}
    MaxNonce = 1000
    MinBalance <- MockMinBalance
    Nonces <- ReplayNonces
    Amounts = {}
    Proposals = {}
    Batches = {}
PROPERTY
    EveryTestPasses
CHECK_DEADLOCK FALSE
