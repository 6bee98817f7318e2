-------------------------- MODULE MCCheckpointSeal --------------------------
(***************************************************************************)
(* The instance of CheckpointSeal that TLC checks.                         *)
(***************************************************************************)
EXTENDS CheckpointSeal

\* Two faulty validators of different power in the first epoch, the stronger one
\* among the first votes of a commit; the second epoch has another set, in which
\* one of them has left.
MCPowers == << <<2, 3, 2, 2, 1>>, <<1, 1, 1, 1, 0>> >>
MCVoteOrder == << <<2, 1, 3, 4, 5>>, <<1, 2, 3, 4>> >>
MCVals == 1 .. 5
MCFaulty == {1, 5}

=============================================================================
