\* Two costakers, two providers and two validators.
\* The instance stops when its bounds are used up.
SPECIFICATION Spec
CONSTANTS
    a = a
    b = b
    f = f
    g = g
    u = u
    v = v
    None = None
    Costakers <- MCCostakers
    Fps <- MCFps
    Vals <- MCVals
    Delegations <- MCDelegations
    InitStatus <- MCInitStatus
    InitActive <- MCInitActive
    InitBaby <- MCInitBaby
    InitValSet <- MCInitValSet
    Amounts <- MCAmounts
    Rewards <- MCRewards
    Ratios <- MCRatios
    InitRatio = 1
    Frac = 4
    DecimalRewards = 1000
    Bounds <- MCBounds
INVARIANTS
    HooksNeverFail
    SatsOfActiveProviders
    
    ScoresAddUp
    CostakersPaid
CHECK_DEADLOCK FALSE
