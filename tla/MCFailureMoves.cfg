SPECIFICATION ConfiguredSpec
CONSTANTS
    alice = alice
    treasury = treasury
    vault = vault
    native = native
    token = token
    ridNative = ridNative
    ridToken = ridToken
    ridUnbound = ridUnbound
    here = here
    nowhere = nowhere
    mpc = mpc
    None = None
    Committee = Committee
    Unsigned = Unsigned
    OtherJunction = OtherJunction
    ZeroAddress = ZeroAddress
    Users = {alice}
    Accounts = {alice, treasury, vault}
    NativeAsset = native
    Locations = {here, nowhere}
    ResourceIds = {ridNative, ridToken, ridUnbound}
    FeeReserveAccount = treasury
    AccountOf <- MC_AccountOf
    AssetLocation <- MC_AssetLocation
    Decimals <- MC_Decimals
    MaxExp = 1
    Pow10 <- MC_Pow10
    MaxU128 = 100000
    FixedMax = 500
    ResourcePairs <- MC_ResourcePairs
    ReserveAccounts <- MC_ReserveAccounts
    Endowment <- MC_Endowment
    Extrinsics <- MC_Extrinsics
    RegisteredExtrinsics <- MC_Extrinsics
    FeeRates = {}
    Dests <- MC_Dests
    AssetIds = {native, token}
    ForeignAssets = {token}
    ChainIds = {c1}
    Grantable = {}
    MpcAddresses = {mpc}
    MigrationAddress = mpc
    RetryHeights = {}
    Domains = {1}
    HandlerChoices = {}
    MaxNonce = 2
    FeeAmounts = {}
    MinBalance <- MC_MinMixed
    Nonces = {0, 1, 2, 3}
    Amounts = {2, 3, 12}
    Proposals <- MC_LedgerProposals
    Batches <- MC_LedgerBatches
PROPERTIES
    FailedProposalMovesNothing
