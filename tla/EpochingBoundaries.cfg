\* One operator joins a genesis validator, delegates, unbonds, redelegates, is
\* slashed and unjailed, while governance changes the epoch interval.
SPECIFICATION Spec
CONSTANTS
    Vals = {"v1", "v2"}
    Genesis = {"v1"}
    Dels = {}
    InitBalance = 3
    Slashable = {"v2"}
    Senders = {"v2"}
    Intervals = {2, 3}
    UnbondingTimes = {20}
    Kinds = {"create", "delegate", "undelegate", "redelegate", "cancel", "edit", "params"}
    MaxHeight = 6
    MaxQueue = 2
INVARIANTS
    FundsAccounted
    EpochsTile
    SignersAreValidators
PROPERTIES
    UnbondingFollowsEpochs
CHECK_DEADLOCK FALSE
