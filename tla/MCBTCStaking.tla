---------------------------- MODULE MCBTCStaking ----------------------------
(* Instances of BTCStaking: a delegation and its stake expansion.          *)
EXTENDS BTCStaking, TLC

\* Delegation 2 is a stake expansion of delegation 1.
MCFpOf == [d \in Dels |-> 1]
MCStakerOf == [d \in Dels |-> 1]
MCTotalSat == [d \in Dels |-> IF d = 2 THEN 3 ELSE 2]
MCStakingTime == [d \in Dels |-> 4]
MCUnbondingTime == [d \in Dels |-> 1]
MCPrevOf == [d \in Dels |-> IF d = 2 THEN 1 ELSE None]

ParamsVersion(from, committee, quorum) ==
    [activation |-> from, committee |-> committee, quorum |-> quorum, unbonding |-> 1,
     minTime |-> 3, maxTime |-> 6, minSat |-> 1, maxSat |-> 5]
OneVersion == <<ParamsVersion(1, Covenants, 1)>>

\* From height 2 on, a smaller quorum.
LoweredQuorum == <<ParamsVersion(1, Covenants, 2), ParamsVersion(2, Covenants, 1)>>
=============================================================================
