---------------------------- MODULE MCIncentive ----------------------------
(* Instance of Incentive: two providers, two stakers, three delegations.   *)
EXTENDS Incentive

CONSTANTS f, g, a, b

MCFps == {f, g}
MCDels == {a, b}

\* Staker a has delegations at both providers, b shares f with it.
MCDelegations == {[fp |-> f, del |-> a, sat |-> 1, id |-> 1],
                  [fp |-> f, del |-> b, sat |-> 2, id |-> 2],
                  [fp |-> g, del |-> a, sat |-> 1, id |-> 3]}

MCCommission == (f :> 100) @@ (g :> 0)

MCFees == {100}
============================================================================
