----------------------- MODULE HeaderChainRefinement -----------------------
(***************************************************************************)
(* The light client implements the abstract chain of headers.              *)
(***************************************************************************)
EXTENDS BTCLightClient

MainChain == [i \in 1..Cardinality(DOMAIN headers) |-> headers[BaseHeight + i - 1].hash]

Abstract == INSTANCE HeaderChain WITH chain <- MainChain

\* The light client implements the abstract HeaderChain: it always shows a
\* chain from the base header, and every message leaves the chain alone or
\* replaces it by one with strictly more work, even if it is shorter.
ImplementsHeaderChain == Abstract!Spec
=============================================================================
