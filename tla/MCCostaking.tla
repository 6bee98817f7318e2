---------------------------- MODULE MCCostaking ----------------------------
(* Instance of Costaking: two costakers, two providers, two validators.    *)
EXTENDS Costaking

CONSTANTS a, b, f, g, u, v

MCCostakers == {a, b}
MCFps == {f, g}
MCVals == {u, v}

\* Costaker a stakes at both providers, b at one of them.
D1 == [fp |-> f, del |-> a, sat |-> 2]
D2 == [fp |-> g, del |-> a, sat |-> 1]
D3 == [fp |-> g, del |-> b, sat |-> 1]
MCDelegations == {D1, D2, D3}
MCInitStatus == (D1 :> "active") @@ (D2 :> "active") @@ (D3 :> "pending")
MCInitActive == {f}

\* BABY of a is at both validators, that of b at the inactive one.
MCInitBaby == (a :> ((u :> 3) @@ (v :> 1))) @@ (b :> ((u :> 0) @@ (v :> 3)))
MCInitValSet == {u}

MCAmounts == {1}
MCRewards == {60}
MCRatios == {1, 2}
MCBounds == [blocks |-> 2, withdrawals |-> 1, updates |-> 1, slashes |-> 1,
             epochs |-> 1, messages |-> 2, steps |-> 4]
============================================================================
