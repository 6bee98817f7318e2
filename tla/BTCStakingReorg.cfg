\* One delegation, BTC forks shallower and deeper than the confirmation depth; an
\* allow list that expires. The chain halts on a deep fork, so it may stop.
SPECIFICATION FairSpec
CONSTANTS
    FPs = {1}
    Deleted = {}
    Dels = {1}
    FpOf <- MCFpOf
    StakerOf <- MCStakerOf
    TotalSat <- MCTotalSat
    StakingTime <- MCStakingTime
    UnbondingTime <- MCUnbondingTime
    PrevOf <- MCPrevOf
    Covenants = {"c1"}
    AllParams <- OneVersion
    AllowListed = {2}
    BtcConfirmationDepth = 2
    CheckpointFinalizationTimeout = 0
    BaseHeight = 1
    MaxTip = 4
    MaxReorg = 2
    ShorterForks = FALSE
    LateCovenant = FALSE
    None = None

    
PROPERTIES
    EventsAreConsumed
CHECK_DEADLOCK FALSE
