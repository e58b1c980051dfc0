SPECIFICATION XcmTestSpec
CONSTANTS
    alice = alice
    bob = bob
    owner = owner
    vault = vault
    treasury = treasury
    tmpOuter = tmpOuter
    tmpXcm = tmpXcm
    None = None
    OtherJunction = OtherJunction
    Chains = {1, 2, 100, 2005}
    Nodes = {1, 2, 100, 2005}
    Accounts = {alice, bob, owner, vault, treasury, tmpOuter, tmpXcm}
    Tokens = {"Balances", "Usdt", "NativeAsset"}
    TokenOf <- TestTokenOf
    MinXcmFee <- TestMinXcmFee
    Routes <- TestRoutes
    HopCost = 4
    Endowed <- TestNet
    Requests = {}
    Home = 100
    CurrencyLocation <- HERE
    CurrencyToken = "Balances"
    FungibleToken <- TestConverter
    OuterFee <- NoFee
    Payouts = {}
    MaxPayouts = 0
    TestAmounts = {14, 22, 40, 100}
    MaxTransfers = 2
PROPERTY
    EveryXcmTestPasses
CHECK_DEADLOCK FALSE
