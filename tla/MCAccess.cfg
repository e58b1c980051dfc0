SPECIFICATION AuditSpec
CONSTANTS
    Domains = {1}
    AssetIds = {}
    MaxU128 = 1
    None = None
    Users = {alice, bob}
    Committee = Committee
    Unsigned = Unsigned
    Extrinsics <- MC_Extrinsics
    RegisteredExtrinsics <- MC_Registered
    Grantable <- MC_Extrinsics
    MaxGrants = 4
INVARIANTS
    DelegationChain
    LatestGrantDecides
CHECK_DEADLOCK FALSE
