-------------------------- MODULE MCBTCCheckpoint --------------------------
(***************************************************************************)
(* A fork leaves the trunk after its first block. Epoch 1 has submissions  *)
(* below the fork, on the trunk and on the fork, one of them split over    *)
(* two blocks; epoch 2 has submissions after them on either branch.        *)
(***************************************************************************)
EXTENDS BTCCheckpoint

Tx(f, h, i) == [hash |-> <<f, h>>, index |-> i]
Sub(e, t1, t2) == [epoch |-> e, txs |-> <<t1, t2>>, kind |-> "local"]
Other(e, t1, t2) == [epoch |-> e, txs |-> <<t1, t2>>, kind |-> "otherSigners"]
Conflicting(e, t1, t2) == [epoch |-> e, txs |-> <<t1, t2>>, kind |-> "conflict"]

MCRoot == [f \in {1} |-> 1]

MCSubmissions ==
    {Sub(1, Tx(0, 1, 1), Tx(0, 1, 2)),      \* on every chain
     Sub(1, Tx(0, 1, 3), Tx(0, 2, 1)),      \* split over two blocks, lost on the fork
     Other(1, Tx(0, 2, 1), Tx(0, 2, 2)),    \* as young as the split one
     Sub(1, Tx(1, 3, 1), Tx(1, 3, 2)),
     Sub(2, Tx(0, 2, 4), Tx(0, 2, 5)),
     Sub(2, Tx(1, 4, 1), Tx(1, 4, 2)),
     Conflicting(2, Tx(0, 4, 1), Tx(0, 4, 2))}
=============================================================================
