\* One provider, long enough to be jailed, unjailed, active and judged again; its
\* stake comes and goes, so that some blocks cannot be finalized.
SPECIFICATION Spec
CONSTANTS
    FPs = {1}
    InitHeight = 10
    MaxHeight = 19
    MaxCommits = 1
    ForkHashes = {}
    SatsTables <- ComingAndGoing
    ResumeLists = {}
    ResumeOnlyHalted = TRUE
    PubRandNums = {}
    InitialCommits <- CommittedByAll
    DeletedFPs = {}
    EpochInterval = 10
    FinalityActivationHeight = 11
    MaxActiveFinalityProviders = 1
    SignedBlocksWindow = 1
    MinSignedPerWindow = 1
    FinalitySigTimeout = 1
    JailDuration = 1
    MinPubRand = 1
    MaxPubRandCommitOffset = 10
    MaxFinalizedRewardedBlocksPerEndBlock = 10
INVARIANTS
    TypeOK
    RewardedOnce

    
