\* Resume proposals that name a height finality waits at, with one active provider
\* out of two and stakes that make them change places.
SPECIFICATION Spec
CONSTANTS
    FPs = {1, 2}
    InitHeight = 10
    MaxHeight = 14
    MaxCommits = 1
    ForkHashes = {}
    SatsTables <- ShiftingStakes
    ResumeLists <- Lists
    ResumeOnlyHalted = TRUE
    PubRandNums = {}
    InitialCommits <- CommittedByAll
    DeletedFPs = {}
    EpochInterval = 10
    FinalityActivationHeight = 11
    MaxActiveFinalityProviders = 1
    SignedBlocksWindow = 1
    MinSignedPerWindow = 1
    FinalitySigTimeout = 1
    JailDuration = 1
    MinPubRand = 1
    MaxPubRandCommitOffset = 10
    MaxFinalizedRewardedBlocksPerEndBlock = 10
INVARIANTS
    SettledPrefix
    
    EndBlockNeverPanics
