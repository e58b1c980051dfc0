SPECIFICATION SigningSpec
CONSTANTS
    Keys = {k1, k2}
    ZeroAddress = ZeroAddress
    Malformed = Malformed
    Deployments <- MC_Deployments
    BatchProposals <- MC_Proposals
    MaxBatch = 2
    MaxSigned = 2
INVARIANT
    AcceptedWasSigned
CHECK_DEADLOCK FALSE
