----------------------------- MODULE HeaderChain -----------------------------
(***************************************************************************)
(* What the light client promises: it shows one chain of Bitcoin headers   *)
(* that starts at the base header, and it replaces it only by a chain with *)
(* strictly more work.                                                     *)
(***************************************************************************)
EXTENDS Integers, Sequences, SequencesExt

CONSTANTS Headers,   \* the headers that may be submitted
          Parent,    \* the header a header points back to (PrevBlock)
          Bits,      \* the difficulty a header states
          Base       \* the header of the genesis state

VARIABLE chain

\* The work a header stands for is determined by its difficulty (CalcWork).
CalcWork(h) == Bits[h]

TotalWork(c) == FoldSeq(LAMBDA h, w : CalcWork(h) + w, 0, c)

IsChain(c) == \A i \in 1..(Len(c) - 1) : Parent[c[i + 1]] = c[i]

Init == chain = <<Base>>

Improve == /\ chain' # <<>>
           /\ Head(chain') = Base
           /\ IsChain(chain')
           /\ TotalWork(chain') > TotalWork(chain)

Spec == Init /\ [][Improve]_chain
=============================================================================
