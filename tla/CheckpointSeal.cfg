\* Two epochs are sealed; less than a third of their power is faulty.
\* The instance stops when the last epoch is sealed.
SPECIFICATION FairSpec
CONSTANTS
    Vals <- MCVals
    Faulty <- MCFaulty
    Powers <- MCPowers
    VoteOrder <- MCVoteOrder
    Interval = 2
INVARIANTS
    SealedOfCommittedBlock
    HonestProposalAccepted
    PreBlockerNeverFails

    
CHECK_DEADLOCK FALSE
