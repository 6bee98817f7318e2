-------------------------- MODULE MCBTCLightClient --------------------------
(***************************************************************************)
(* A tree of headers with difficulty periods of two blocks. The second     *)
(* retarget, at height 4, is the first one that depends on the branch: it  *)
(* keeps the difficulty on branches a, c and d and trebles it on branch b, *)
(* so that a chain of b is better than a longer one of a. The third, at    *)
(* height 6, doubles it on a and e and takes it back on b and f. Headers   *)
(* 44 and 86 state on branch b the difficulty of another branch or period. *)
(*                                                                         *)
(*   height     1    2    3    4        5    6        7    8               *)
(*   branch a   11   12   13   14       15   16       17   18              *)
(*   branch b        22   23   24 | 44  25   26 | 86  27   (forks off 11)  *)
(*   branch c             33   34       35   36            (forks off 12)  *)
(*   branch d   51   52   53   54                                          *)
(*   branch e                           65   66       67   (forks off 14)  *)
(*   branch f                           75   76            (forks off 24)  *)
(***************************************************************************)
EXTENDS HeaderChainRefinement

MCHeaders == {0} \cup 11..18 \cup 22..27 \cup 33..36 \cup 51..54 \cup 65..67
                 \cup {44, 75, 76, 86}

MCParent == [h \in MCHeaders \ {0} |->
    CASE h \in {11, 51} -> 0
      [] h = 22 -> 11
      [] h = 33 -> 12
      [] h = 44 -> 23
      [] h = 65 -> 14
      [] h = 75 -> 24
      [] h = 86 -> 25
      [] OTHER -> h - 1]

MCBits == [h \in MCHeaders |->
    CASE h \in {24, 25, 75, 86} -> 3
      [] h \in {16, 17, 18, 66, 67} -> 2
      [] OTHER -> 1]

MCRetarget == [h \in MCHeaders |->
    CASE h = 22 -> 3
      [] h \in {14, 16} -> 2
      [] OTHER -> 1]
=============================================================================
