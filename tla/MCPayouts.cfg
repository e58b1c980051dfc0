SPECIFICATION PayoutSpec
CONSTANTS
    y = y
    vault = vault
    treasury = treasury
    tmpOuter = tmpOuter
    tmpXcm = tmpXcm
    None = None
    OtherJunction = OtherJunction
    Chains = {1, 2, 3}
    Accounts = {y, vault, treasury, tmpOuter, tmpXcm}
    Nodes <- MC_Nodes
    Tokens <- MC_Tokens
    TokenOf <- MC_TokenOf
    MinXcmFee <- MC_MinXcmFee
    Routes <- MC_Routes
    HopCost = 2
    Endowed <- MC_Endowed
    Requests <- MC_Requests
    MaxTransfers = 3
    Home = 1
    CurrencyLocation <- HERE
    CurrencyToken = "one"
    FungibleToken <- MC_FungibleToken
    OuterFee <- MC_OuterFee
    Payouts <- MC_Payouts
    MaxPayouts = 2
INVARIANTS
    NetTypeOK
    StrandedIsRefused
    VaultPaysOnce
    Backed
PROPERTY
    CoveredIsDelivered
CHECK_DEADLOCK FALSE
