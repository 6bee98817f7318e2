\* Two providers, two stakers, rewards paid late.
\* The instance stops at its last height.
SPECIFICATION Spec
CONSTANTS
    f = f
    g = g
    a = a
    b = b
    None = None
    Fps <- MCFps
    Dels <- MCDels
    Delegations <- MCDelegations
    Commission <- MCCommission
    OneDec = 1000
    DecimalRewards = 1000
    BtcStakingPortion = 600
    FpPortion = 100
    Fees <- MCFees
    MaxHeight = 3
    MaxChanges = 3
    MaxWithdrawals = 2
INVARIANTS
    RewardNeverPanics
    Solvent
    PaidAsStaked
CHECK_DEADLOCK FALSE
