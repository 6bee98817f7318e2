\* Reorganisations of any depth, a confirmation depth that governance changes, and a
\* checkpoint for another block that a quorum signed. The chain may halt.
SPECIFICATION Spec
CONSTANTS
    Epochs = {1, 2}
    Submissions <- MCSubmissions
    Forks = {1}
    Root <- MCRoot
    CheckpointFinalizationTimeout = 3
    ConfirmationDepths = {1, 2}
    InitialDepth = 2
    MaxHeight = 6
    MaxReorg = 6
    ShorterForks = FALSE
INVARIANTS
    LifeCyclesAgree
    
    OrderedOnBitcoin
    DataOfOpenEpochs

    
CHECK_DEADLOCK FALSE
