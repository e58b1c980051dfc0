SPECIFICATION ScheduleSpec
CONSTANTS
    Domains = {1, 2}
    AssetIds = {native}
    MaxU128 = 40000
    None = None
    Users = {alice}
    Committee = Committee
    Unsigned = Unsigned
    Extrinsics <- MC_Extrinsics
    RegisteredExtrinsics <- MC_Extrinsics
    Grantable <- MC_Grantable
    FeeAmounts = {0, 2}
    FeeRates <- MC_FeeRates
    HandlerChoices = {"BasicFeeHandler", "PercentageFeeHandler", "DynamicFeeHandler"}
    QuoteAmounts = {0, 1, 2, 3, 4, 5, 7, 8, 9, 10}
INVARIANTS
    AffordableAboveLowerBound
    QuotesMonotone
PROPERTIES
    OnePairAtATime
    DormantHandlersSilent
