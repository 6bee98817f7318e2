----------------------------- MODULE MCFinality -----------------------------
(* Instances of Finality for TLC: the constants a .cfg cannot write. *)
EXTENDS Finality

\* Providers 1..n with randomness committed, before the model starts, for the
\* heights of the model.
CommittedByAll ==
    [f \in FPs |-> <<[start |-> FinalityActivationHeight, num |-> MaxHeight,
                      epoch |-> 1]>>]

\* Nobody has committed randomness yet.
CommittedByNone == [f \in FPs |-> <<>>]

\* Provider 2 has exactly two thirds of the power of two active providers.
TwoToOne == {[f \in FPs |-> IF f = 2 THEN 2 ELSE 1]}

\* The largest key has as much stake as the others, or outweighs the others.
ShiftingStakes ==
    {[f \in FPs |-> 1],
     [f \in FPs |-> IF f = Max(FPs) THEN 3 ELSE 1]}

\* All stake, or none.
ComingAndGoing == {[f \in FPs |-> 1], [f \in FPs |-> 0]}

Lists == {{f} : f \in FPs}
=============================================================================
