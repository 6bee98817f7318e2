\* Votes for the canonical block and for a fork, with exactly two thirds of the
\* power at one provider; epochs of one block that are timestamped at any time,
\* randomness that is committed for it, and fair block production.
SPECIFICATION FairSpec
CONSTANTS
    FPs = {1, 2}
    InitHeight = 2
    MaxHeight = 6
    MaxCommits = 1
    ForkHashes = {"fork"}
    SatsTables <- TwoToOne
    ResumeLists = {}
    ResumeOnlyHalted = TRUE
    PubRandNums = {2, 3}
    InitialCommits <- CommittedByNone
    DeletedFPs = {}
    EpochInterval = 1
    FinalityActivationHeight = 4
    MaxActiveFinalityProviders = 2
    SignedBlocksWindow = 2
    MinSignedPerWindow = 1
    FinalitySigTimeout = 1
    JailDuration = 1
    MinPubRand = 1
    MaxPubRandCommitOffset = 3
    MaxFinalizedRewardedBlocksPerEndBlock = 10
INVARIANTS
    Accountable
    PoweredMayVote

    
