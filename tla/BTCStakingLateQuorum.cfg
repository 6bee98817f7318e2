\* Covenant members may sign after the expiry height of the delegation.
SPECIFICATION Spec
CONSTANTS
    FPs = {1}
    Deleted = {}
    Dels = {1}
    FpOf <- MCFpOf
    StakerOf <- MCStakerOf
    TotalSat <- MCTotalSat
    StakingTime <- MCStakingTime
    UnbondingTime <- MCUnbondingTime
    PrevOf <- MCPrevOf
    Covenants = {"c1"}
    AllParams <- OneVersion
    AllowListed = {}
    BtcConfirmationDepth = 1
    CheckpointFinalizationTimeout = 0
    BaseHeight = 1
    MaxTip = 5
    MaxReorg = 0
    ShorterForks = FALSE
    LateCovenant = TRUE
    None = None
INVARIANTS
    PowerIffActive
