\* A delegation and its stake expansion, which falls under a later parameter version
\* with a smaller covenant quorum: every order of messages, tips and blocks.
SPECIFICATION Spec
CONSTANTS
    FPs = {1}
    Deleted = {}
    Dels = {1, 2}
    FpOf <- MCFpOf
    StakerOf <- MCStakerOf
    TotalSat <- MCTotalSat
    StakingTime <- MCStakingTime
    UnbondingTime <- MCUnbondingTime
    PrevOf <- MCPrevOf
    Covenants = {"c1", "c2"}
    AllParams <- LoweredQuorum
    AllowListed = {}
    BtcConfirmationDepth = 1
    CheckpointFinalizationTimeout = 0
    BaseHeight = 1
    MaxTip = 4
    MaxReorg = 0
    ShorterForks = FALSE
    LateCovenant = FALSE
    None = None
INVARIANTS
    CountedOnce
    PowerIffActive
    CacheFollowsRegistry
    
