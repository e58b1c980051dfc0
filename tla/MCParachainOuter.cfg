SPECIFICATION PayoutSpec
CONSTANTS
    user = user
    vault = vault
    treasury = treasury
    tmpOuter = tmpOuter
    tmpXcm = tmpXcm
    None = None
    OtherJunction = OtherJunction
    Chains = {2004, 2005}
    Nodes = {2004, 2005}
    Accounts = {user, vault, treasury, tmpOuter, tmpXcm}
    Tokens = {"Balances", "Assets"}
    TokenOf <- LocalAssetTransactor
    MinXcmFee <- RuntimeMinXcmFee
    Routes = {}
    HopCost = 1
    Endowed <- RuntimeEndowed
    Requests = {}
    MaxTransfers = 2
    Home = 2004
    CurrencyLocation <- RuntimeCurrencyLocation
    CurrencyToken = "Balances"
    FungibleToken <- SimpleForeignAssetConverter
    BasicFee = 1
    OuterFee <- RuntimeOuterFee
    Payouts <- RuntimePayouts
    MaxPayouts = 2
INVARIANT
    OuterWorldIsForwarded
CHECK_DEADLOCK FALSE
