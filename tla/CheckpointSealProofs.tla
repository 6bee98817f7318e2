------------------------ MODULE CheckpointSealProofs ------------------------
(***************************************************************************)
(* Machine-checked proofs about module CheckpointSeal, for every set of    *)
(* validators and powers, every number of epochs and whatever the faulty   *)
(* validators send, as long as they have less than a third of the power.   *)
(***************************************************************************)
EXTENDS CheckpointSeal, Extrema, TLAPS

\* What PreBlocker stores of epoch e, with l its last block.
Sealed(ck, e, l) ==
    /\ ck # None
    /\ ck \in [epoch : {e}, hash : {l}, bitmap : SUBSET Vals,
               multiSig : SUBSET {Sig(v, e, l) : v \in Vals}]
    /\ HasTwoThirds(e, ck.bitmap)
    /\ ck.multiSig = {Sig(v, e, l) : v \in ck.bitmap}

\* Where the height is in the epoch, and that the last epoch of the instance ends the run.
InRange ==
    /\ height \in Nat /\ epoch \in 0 .. LastEpoch + 1
    /\ height >= GetLastBlockHeight(epoch) - Interval + 1
    /\ height <= GetLastBlockHeight(epoch)
    /\ epoch = LastEpoch + 1 => height = GetLastBlockHeight(LastEpoch) + 1

\* Honest validators have signed the committed block.
HonestVotes ==
    /\ DOMAIN ext = Vals
    /\ \A v \in Members(epoch) \ Faulty : ext[v] = ExtendVote(v, epoch, height)
    /\ \A v \in Members(epoch) : ext[v] # None

\* A commit holds votes as their senders made them, or leaves them out.
OfVotes(c) == \A v \in Vals : c[v] = None \/ c[v] = ext[v]

Proposed == proposal # None => IsVoteExtensionProposal /\ OfVotes(proposal.commit)

Store ==
    /\ DOMAIN ckpts = 1 .. LastEpoch
    /\ \A e \in 1 .. LastEpoch : e >= epoch => ckpts[e] = None
    /\ \A e \in 1 .. LastEpoch : e < epoch => Sealed(ckpts[e], e, GetLastBlockHeight(e))

IInv == InRange /\ HonestVotes /\ Proposed /\ Store /\ halted = FALSE

LEMMA MembersAreVals == \A e : Members(e) \subseteq Vals
BY DEF Members

\* The arithmetic of GetLastBlockHeight.
LEMMA LastBlockOfNext ==
    ASSUME NEW e \in Nat
    PROVE  /\ GetLastBlockHeight(e) \in Nat
           /\ GetLastBlockHeight(e + 1) = GetLastBlockHeight(e) + Interval
           /\ GetLastBlockHeight(0) = 0
           /\ e >= 1 => GetLastBlockHeight(e) >= Interval
BY SealAssumption DEF GetLastBlockHeight

\* Faulty validators alone are no quorum, in the count of CometBFT or of Accumulate.
LEMMA FaultyIsNoQuorum ==
    ASSUME NEW e \in 1 .. LastEpoch, NEW S \in SUBSET Faulty
    PROVE  ~IsQuorum(e, PowerOf(e, S)) /\ ~HasTwoThirds(e, S)
<1> DEFINE n == PowerOf(e, S)
           t == PowerOf(e, Vals)
<1>1. n \in Nat /\ t \in Nat /\ 3 * n < t
  BY SealAssumption
<1>2. ~(n >= (2 * t) \div 3 + 1) /\ ~(3 * n > 2 * t)
  <2> HIDE DEF n, t
  <2> QED BY <1>1
<1> QED BY <1>2 DEF IsQuorum, HasTwoThirds

\* The only block hash that can have a quorum among the votes is the committed one.
LEMMA OnlyCommittedHash ==
    ASSUME HonestVotes, epoch \in 1 .. LastEpoch, height \in Nat, height > 0,
           height = GetLastBlockHeight(epoch),
           NEW c, OfVotes(c)
    PROVE  /\ findLastBlockHash(epoch, c) \subseteq {height}
           /\ buildCheckpointFromVoteExtensions(epoch, c) # None => findLastBlockHash(epoch, c) = {height}
           /\ findLastBlockHash(epoch, c) = {height} =>
                buildCheckpointFromVoteExtensions(epoch, c) = SealedBy(epoch, c, height)
<1>1. findLastBlockHash(epoch, c) \subseteq {height}
  <2>1. SUFFICES ASSUME NEW b \in findLastBlockHash(epoch, c), b # height PROVE FALSE
    OBVIOUS
  <2> DEFINE S == {v \in {u \in Present(epoch, c) : c[u] # Empty} : c[v].hash = b}
  <2>2. ASSUME NEW v \in S PROVE v \in Faulty
    <3>1. v \in Members(epoch) /\ v \in Vals /\ c[v] # None /\ c[v].hash = b
      BY MembersAreVals DEF Present
    <3>2. c[v] = ext[v]
      BY <3>1 DEF OfVotes
    <3>3. CASE v \notin Faulty
      <4>1. ext[v] = Extension(v, v, epoch, height)
        BY <3>1, <3>3 DEF HonestVotes, ExtendVote
      <4>2. ext[v].hash = height
        BY <4>1 DEF Extension
      <4> QED BY <2>1, <3>1, <3>2, <4>2
    <3> QED BY <3>3
  <2>3. S \in SUBSET Faulty
    BY <2>2
  <2>4. IsQuorum(epoch, PowerOf(epoch, S))
    BY <2>1 DEF findLastBlockHash
  <2> QED BY <2>3, <2>4, FaultyIsNoQuorum
<1>2. ASSUME buildCheckpointFromVoteExtensions(epoch, c) # None PROVE findLastBlockHash(epoch, c) = {height}
  <2>1. findLastBlockHash(epoch, c) # {}
    BY <1>2 DEF buildCheckpointFromVoteExtensions
  <2> QED BY <1>1, <2>1
<1>3. ASSUME findLastBlockHash(epoch, c) = {height}
      PROVE  buildCheckpointFromVoteExtensions(epoch, c) = SealedBy(epoch, c, height)
  <2>1. {SealedBy(epoch, c, b) : b \in findLastBlockHash(epoch, c)} = {SealedBy(epoch, c, height)}
    BY <1>3
  <2> QED BY <2>1 DEF buildCheckpointFromVoteExtensions
<1> QED BY <1>1, <1>2, <1>3

\* What a proposer can make of the votes, if it is a checkpoint at all, is one of the
\* committed block.
LEMMA BuiltIsSealed ==
    ASSUME HonestVotes, epoch \in 1 .. LastEpoch, height \in Nat, height > 0,
           height = GetLastBlockHeight(epoch),
           NEW c, OfVotes(c), buildCheckpointFromVoteExtensions(epoch, c) # None
    PROVE  Sealed(buildCheckpointFromVoteExtensions(epoch, c), epoch, height)
<1> DEFINE ck == buildCheckpointFromVoteExtensions(epoch, c)
<1>1. ck = SealedBy(epoch, c, height)
  BY OnlyCommittedHash
<1> DEFINE Signers(n) == {Vote(epoch, c, i).signer : i \in Accumulate(epoch, c, height, n)}
           enough == {n \in 1 .. Len(VoteOrder[epoch]) : HasTwoThirds(epoch, Signers(n))}
           m == Min(enough)
           A == Accumulate(epoch, c, height, m)
<1>2. /\ enough # {}
      /\ ck = [epoch |-> epoch, hash |-> height, bitmap |-> Signers(m),
               multiSig |-> {Vote(epoch, c, i).sig : i \in A}]
  BY <1>1 DEF SealedBy
<1>3. HasTwoThirds(epoch, Signers(m))
  <2>1. enough \in SUBSET Int /\ \A n \in enough : 1 <= n
    OBVIOUS
  <2>2. m \in enough
    <3> HIDE DEF enough
    <3> QED BY <1>2, <2>1, MinOfBounded
  <2> QED BY <2>2
<1>4. \A i \in A : /\ Vote(epoch, c, i).signer \in Vals
                   /\ Vote(epoch, c, i).sig = Sig(Vote(epoch, c, i).signer, epoch, height)
  BY MembersAreVals DEF Accumulate, IsValid, VerifyBLSSig
<1>5. Signers(m) = {Vote(epoch, c, i).signer : i \in A}
  OBVIOUS
<1> HIDE DEF A, ck
<1>6. /\ {Vote(epoch, c, i).signer : i \in A} \subseteq Vals
      /\ {Vote(epoch, c, i).sig : i \in A}
           = {Sig(v, epoch, height) : v \in {Vote(epoch, c, i).signer : i \in A}}
  BY <1>4
<1>7. /\ ck \in [epoch : {epoch}, hash : {height}, bitmap : SUBSET Vals,
                 multiSig : SUBSET {Sig(v, epoch, height) : v \in Vals}]
      /\ ck.bitmap = Signers(m)
      /\ ck.multiSig = {Sig(v, epoch, height) : v \in ck.bitmap}
  <2> HIDE DEF Signers, m
  <2> QED BY <1>2, <1>5, <1>6
<1> QED BY <1>3, <1>7 DEF Sealed, ck

\* A vote that is sent is not absent.
LEMMA VotesAreSome ==
    ASSUME NEW v, NEW e, NEW h
    PROVE  ExtendVote(v, e, h) # None /\ \A x \in FaultyExtensions(v, e, h) : x # None
<1>1. Empty # None
  BY DEF Empty, None
<1>2. \A a, w, n, b : Extension(a, w, n, b) # None
  <2>1. SUFFICES ASSUME NEW a, NEW w, NEW n, NEW b PROVE Extension(a, w, n, b) # None
    OBVIOUS
  <2>2. "val" \in DOMAIN Extension(a, w, n, b) /\ "val" \notin DOMAIN None
    BY DEF Extension, None
  <2> QED BY <2>2
<1>3. \A a, w, n, b, g : [Extension(a, w, n, b) EXCEPT !.sig = g] # None
  <2>1. SUFFICES ASSUME NEW a, NEW w, NEW n, NEW b, NEW g
                 PROVE  [Extension(a, w, n, b) EXCEPT !.sig = g] # None
    OBVIOUS
  <2>2. /\ "val" \in DOMAIN [Extension(a, w, n, b) EXCEPT !.sig = g]
        /\ "val" \notin DOMAIN None
    BY DEF Extension, None
  <2> QED BY <2>2
<1>4. ExtendVote(v, e, h) # None
  BY <1>1, <1>2 DEF ExtendVote
<1>5. ASSUME NEW x \in FaultyExtensions(v, e, h) PROVE x # None
  BY <1>1, <1>2, <1>3 DEF FaultyExtensions
<1> QED BY <1>4, <1>5

LEMMA InitIInv == Init => IInv
<1> SUFFICES ASSUME Init PROVE IInv
  OBVIOUS
<1>1. LastEpoch \in Nat /\ Interval \in Nat /\ Interval >= 2 /\ GetLastBlockHeight(0) = 0
  BY SealAssumption, LastBlockOfNext
<1>2. InRange
  BY <1>1 DEF Init, InRange
<1>3. Members(0) = {}
  BY DEF Members
<1> QED BY <1>1, <1>2, <1>3 DEF Init, IInv, HonestVotes, Proposed, Store

\* The epoch of a vote extension proposal, and its height.
LEMMA AtTheEnd ==
    ASSUME InRange, IsVoteExtensionProposal
    PROVE  /\ epoch \in 1 .. LastEpoch /\ height \in Nat /\ height > 0
           /\ height = GetLastBlockHeight(epoch)
<1>1. LastEpoch \in Nat /\ Interval \in Nat /\ Interval >= 2 /\ epoch \in Nat /\ height \in Nat
  BY SealAssumption DEF InRange
<1>2. /\ GetLastBlockHeight(epoch) \in Nat /\ GetLastBlockHeight(LastEpoch) \in Nat
      /\ GetLastBlockHeight(LastEpoch + 1) = GetLastBlockHeight(LastEpoch) + Interval
      /\ epoch >= 1 => GetLastBlockHeight(epoch) >= Interval
  BY <1>1, LastBlockOfNext
<1>3. epoch > 0 /\ height = GetLastBlockHeight(epoch)
  BY <1>1, <1>2 DEF IsVoteExtensionProposal, IsFirstBlockOfNextEpoch
<1>4. epoch # LastEpoch + 1
  BY <1>1, <1>2, <1>3 DEF InRange
<1> QED BY <1>1, <1>2, <1>3, <1>4 DEF InRange

LEMMA OrdinaryBlockIInv ==
    ASSUME IInv, OrdinaryBlock
    PROVE  IInv'
<1> DEFINE e == IF IsFirstBlockOfNextEpoch(epoch, height + 1) THEN epoch + 1 ELSE epoch
<1>1. /\ LastEpoch \in Nat /\ Interval \in Nat /\ Interval >= 2
      /\ epoch \in Nat /\ height \in Nat
  BY SealAssumption DEF IInv, InRange
<1>2. /\ GetLastBlockHeight(epoch) \in Nat /\ GetLastBlockHeight(0) = 0
      /\ GetLastBlockHeight(epoch + 1) = GetLastBlockHeight(epoch) + Interval
  BY <1>1, LastBlockOfNext
<1>3. /\ e <= LastEpoch /\ height' = height + 1 /\ epoch' = e /\ proposal' = None
      /\ ext' = [v \in Vals |-> IF v \in Members(e) THEN ExtendVote(v, e, height + 1) ELSE None]
      /\ ckpts' = ckpts /\ halted' = halted
  <2>1. Members(e) \subseteq Vals
    BY MembersAreVals
  <2> HIDE DEF e
  <2>2. /\ e <= LastEpoch /\ UNCHANGED <<ckpts, halted>>
        /\ Commit(e, [v \in Vals |-> ExtendVote(v, e, height + 1)])
    BY DEF OrdinaryBlock, e
  <2> QED BY <2>1, <2>2 DEF Commit
<1>4. \/ epoch = 0 /\ height = 0 /\ e = 1
      \/ e = epoch /\ height < GetLastBlockHeight(epoch)
  <2>1. CASE IsFirstBlockOfNextEpoch(epoch, height + 1)
    <3>1. epoch = 0
      BY <1>1, <2>1 DEF OrdinaryBlock, IsVoteExtensionProposal
    <3> QED BY <1>1, <1>2, <2>1, <3>1 DEF IInv, InRange
  <2>2. CASE ~IsFirstBlockOfNextEpoch(epoch, height + 1)
    <3>1. height # GetLastBlockHeight(epoch)
      BY <1>1, <1>2, <2>2 DEF IsFirstBlockOfNextEpoch
    <3> QED BY <1>1, <1>2, <2>2, <3>1 DEF IInv, InRange
  <2> QED BY <2>1, <2>2
<1> HIDE DEF e
<1>5. InRange'
  <2>1. CASE epoch = 0 /\ height = 0 /\ e = 1
    BY <1>1, <1>2, <1>3, <2>1 DEF InRange, GetLastBlockHeight
  <2>2. CASE e = epoch /\ height < GetLastBlockHeight(epoch)
    BY <1>1, <1>2, <1>3, <2>2 DEF IInv, InRange, GetLastBlockHeight
  <2> QED BY <1>4, <2>1, <2>2
<1>6. HonestVotes'
  BY <1>3, MembersAreVals, VotesAreSome DEF HonestVotes
<1>7. Store'
  BY <1>1, <1>3, <1>4 DEF IInv, Store
<1> QED BY <1>3, <1>5, <1>6, <1>7 DEF IInv, Proposed

LEMMA LastBlockIInv ==
    ASSUME IInv, LastBlock
    PROVE  IInv'
<1>1. /\ LastEpoch \in Nat /\ Interval \in Nat /\ Interval >= 2
      /\ epoch \in Nat /\ height \in Nat /\ GetLastBlockHeight(epoch) \in Nat
  BY SealAssumption, LastBlockOfNext DEF IInv, InRange
<1> PICK f : /\ \A v \in Faulty : f[v] \in FaultyExtensions(v, epoch, height + 1)
             /\ Commit(epoch, [v \in Vals |-> IF v \in Faulty THEN f[v]
                                              ELSE ExtendVote(v, epoch, height + 1)])
  BY DEF LastBlock
<1>2. /\ epoch <= LastEpoch /\ height + 1 = GetLastBlockHeight(epoch)
      /\ height' = height + 1 /\ epoch' = epoch /\ proposal' = None
      /\ ckpts' = ckpts /\ halted' = halted
  BY DEF LastBlock, Commit
<1>3. InRange'
  BY <1>1, <1>2 DEF IInv, InRange, GetLastBlockHeight
<1>4. HonestVotes'
  <2>1. DOMAIN ext' = Vals
    BY DEF Commit
  <2>2. ASSUME NEW v \in Members(epoch) \ Faulty
        PROVE  ext'[v] = ExtendVote(v, epoch, height + 1)
    BY MembersAreVals DEF Commit
  <2>3. ASSUME NEW v \in Members(epoch), v \in Faulty PROVE ext'[v] # None
    <3>1. ext'[v] = f[v] /\ f[v] \in FaultyExtensions(v, epoch, height + 1)
      BY <2>3, MembersAreVals DEF Commit
    <3> QED BY <3>1, VotesAreSome
  <2> QED BY <1>2, <2>1, <2>2, <2>3, VotesAreSome DEF HonestVotes
<1>5. Store'
  BY <1>2 DEF IInv, Store
<1> QED BY <1>2, <1>3, <1>4, <1>5 DEF IInv, Proposed

\* A proposal of votes that were sent, by a faulty proposer or an honest one.
LEMMA ProposeIInv ==
    ASSUME IInv, UNCHANGED <<height, epoch, ext, ckpts, halted>>, IsVoteExtensionProposal,
           proposal' # None => OfVotes(proposal'.commit)
    PROVE  IInv'
<1>1. InRange' /\ HonestVotes' /\ Store'
  BY DEF IInv, InRange, HonestVotes, Store
<1>2. Proposed'
  BY DEF Proposed, IsVoteExtensionProposal, OfVotes
<1> QED BY <1>1, <1>2 DEF IInv

LEMMA LocalCommit == \A S : OfVotes(LocalLastCommit(S))
BY DEF OfVotes, LocalLastCommit

LEMMA PrepareProposalIInv ==
    ASSUME IInv, NEW seen, PrepareProposal(seen)
    PROVE  IInv'
<1> DEFINE c == LocalLastCommit(seen)
<1>1. OfVotes(Prune(epoch, c, findLastBlockHash(epoch, c)))
  <2>1. OfVotes(c)
    BY LocalCommit
  <2> HIDE DEF c
  <2> QED BY <2>1 DEF OfVotes, Prune
<1>2. proposal'.commit = Prune(epoch, c, findLastBlockHash(epoch, c))
  <2> HIDE DEF c
  <2>1. PICK ck : proposal' = [honest |-> TRUE, commit |-> Prune(epoch, c, findLastBlockHash(epoch, c)), ckpt |-> ck]
    BY DEF PrepareProposal, c
  <2> QED BY <2>1
<1> QED BY <1>1, <1>2, ProposeIInv DEF PrepareProposal

LEMMA FaultyProposalIInv ==
    ASSUME IInv, FaultyProposal
    PROVE  IInv'
<1>1. PICK seen, ck : proposal' = [honest |-> FALSE, ckpt |-> ck, commit |-> LocalLastCommit(seen)]
  BY DEF FaultyProposal
<1>2. proposal'.commit = LocalLastCommit(seen)
  BY <1>1
<1> QED BY <1>2, LocalCommit, ProposeIInv DEF FaultyProposal

LEMMA FirstBlockIInv ==
    ASSUME IInv, FirstBlock
    PROVE  IInv'
<1> DEFINE ck == proposal.ckpt
           l == GetLastBlockHeight(epoch)
<1>1. IsVoteExtensionProposal /\ OfVotes(proposal.commit)
  BY DEF FirstBlock, IInv, Proposed
<1>2. epoch \in 1 .. LastEpoch /\ height \in Nat /\ height > 0 /\ height = l
  BY <1>1, AtTheEnd DEF IInv
<1>3. Sealed(ck, epoch, l)
  <2>1. /\ buildCheckpointFromVoteExtensions(epoch, proposal.commit) = ck
        /\ buildCheckpointFromVoteExtensions(epoch, proposal.commit) # None
    BY DEF FirstBlock, ProcessProposal
  <2> QED BY <1>1, <1>2, <2>1, BuiltIsSealed DEF IInv
<1>4. ck.epoch = epoch /\ CanSeal(ck)
  <2>1. ck.epoch = epoch /\ ck.hash = l
    BY <1>3 DEF Sealed
  <2>2. VerifyRawCheckpoint(ck)
    BY <1>3, <2>1 DEF Sealed, VerifyRawCheckpoint
  <2>3. ckpts[epoch] = None
    BY <1>2 DEF IInv, Store
  <2> QED BY <2>1, <2>2, <2>3 DEF CanSeal
<1>5. ckpts' = [ckpts EXCEPT ![epoch] = ck] /\ halted' = halted
  BY <1>4 DEF FirstBlock, PreBlocker
<1>6. /\ height' = height + 1 /\ epoch' = epoch + 1 /\ proposal' = None
      /\ ext' = [v \in Vals |-> IF v \in Members(epoch + 1)
                                THEN ExtendVote(v, epoch + 1, height + 1) ELSE None]
  <2>1. Commit(epoch + 1, [v \in Vals |-> ExtendVote(v, epoch + 1, height + 1)])
    BY DEF FirstBlock
  <2> QED BY <2>1 DEF Commit
<1>7. InRange'
  <2>1. /\ LastEpoch \in Nat /\ Interval \in Nat /\ Interval >= 2 /\ l \in Nat
        /\ GetLastBlockHeight(epoch + 1) = l + Interval
    BY <1>2, SealAssumption, LastBlockOfNext
  <2>2. GetLastBlockHeight(epoch)' = GetLastBlockHeight(epoch + 1)
    BY <1>6 DEF GetLastBlockHeight
  <2>3. GetLastBlockHeight(LastEpoch)' = GetLastBlockHeight(LastEpoch)
    BY DEF GetLastBlockHeight
  <2> QED BY <1>2, <1>6, <2>1, <2>2, <2>3 DEF InRange
<1>8. HonestVotes'
  BY <1>6, MembersAreVals, VotesAreSome DEF HonestVotes
<1>9. Store'
  <2>1. DOMAIN ckpts' = 1 .. LastEpoch
    BY <1>5 DEF IInv, Store
  <2>2. ASSUME NEW e \in 1 .. LastEpoch, e >= epoch + 1 PROVE ckpts'[e] = None
    BY <1>2, <1>5, <2>2 DEF IInv, Store
  <2>3. ASSUME NEW e \in 1 .. LastEpoch, e < epoch + 1
        PROVE  Sealed(ckpts'[e], e, GetLastBlockHeight(e))
    <3>1. CASE e = epoch
      <4>1. ckpts'[e] = ck
        BY <1>5, <2>3, <3>1 DEF IInv, Store
      <4> QED BY <1>3, <3>1, <4>1
    <3>2. CASE e # epoch
      <4>1. ckpts'[e] = ckpts[e] /\ e < epoch
        BY <1>2, <1>5, <2>3, <3>2 DEF IInv, Store
      <4> QED BY <2>3, <4>1 DEF IInv, Store
    <3> QED BY <3>1, <3>2
  <2> QED BY <1>6, <2>1, <2>2, <2>3 DEF Store, GetLastBlockHeight
<1> QED BY <1>5, <1>6, <1>7, <1>8, <1>9 DEF IInv, Proposed

LEMMA NextIInv == IInv /\ [Next]_vars => IInv'
<1> SUFFICES ASSUME IInv, [Next]_vars PROVE IInv'
  OBVIOUS
<1>1. CASE OrdinaryBlock
  BY <1>1, OrdinaryBlockIInv
<1>2. CASE LastBlock
  BY <1>2, LastBlockIInv
<1>3. ASSUME NEW seen, PrepareProposal(seen) PROVE IInv'
  BY <1>3, PrepareProposalIInv
<1>4. CASE FaultyProposal
  BY <1>4, FaultyProposalIInv
<1>5. CASE FirstBlock
  BY <1>5, FirstBlockIInv
<1>6. CASE RejectProposal
  <2>1. IsVoteExtensionProposal
    BY <1>6 DEF RejectProposal, IInv, Proposed
  <2> QED BY <1>6, <2>1, ProposeIInv DEF RejectProposal
<1>7. CASE UNCHANGED vars
  BY <1>7 DEF vars, IInv, InRange, HonestVotes, Proposed, OfVotes, IsVoteExtensionProposal, Store
<1> QED BY <1>1, <1>2, <1>3, <1>4, <1>5, <1>6, <1>7 DEF Next

LEMMA SpecIInv == Spec => []IInv
BY InitIInv, NextIInv, PTL DEF Spec

LEMMA TypeFollows == IInv => TypeOK
<1> SUFFICES ASSUME IInv PROVE TypeOK
  OBVIOUS
<1>1. height \in (epoch - 1) * Interval + 1 .. epoch * Interval
  <2>1. epoch \in Int /\ Interval \in Int /\ (epoch - 1) * Interval = epoch * Interval - Interval
    BY SealAssumption DEF IInv, InRange
  <2>2. epoch * Interval \in Int
    BY <2>1
  <2> QED BY <2>1, <2>2 DEF IInv, InRange, GetLastBlockHeight
<1>2. ASSUME NEW e \in 1 .. LastEpoch PROVE ckpts[e] = None \/ ckpts[e] \in Checkpoints(e)
  <2>1. ASSUME NEW ck, Sealed(ck, e, GetLastBlockHeight(e)) PROVE ck \in Checkpoints(e)
    <3> DEFINE l == GetLastBlockHeight(e)
    <3>1. {Sig(v, e, l) : v \in Vals}
            \subseteq {Sig(v, n, b) : v \in Vals, n \in {e - 1, e}, b \in {l, -l}}
      OBVIOUS
    <3> HIDE DEF l
    <3> QED BY <2>1, <3>1 DEF Sealed, Checkpoints, l
  <2>2. e < epoch \/ e >= epoch
    BY SealAssumption DEF IInv, InRange
  <2> QED BY <2>1, <2>2 DEF IInv, Store
<1> QED BY <1>1, <1>2 DEF IInv, InRange, HonestVotes, Proposed, TypeOK

\* No checkpoint over another block that is put together from the signatures of
\* faulty validators passes verifyCkptBytes as a conflicting one.
LEMMA NoConflict ==
    ASSUME NEW e \in 1 .. LastEpoch, NEW l \in Nat, Sealed(ckpts[e], e, l),
           NEW B \in SUBSET Vals, NEW S \in SUBSET Faulty
    PROVE  verifyCkptBytes([ckpts[e] EXCEPT !.hash = -l, !.bitmap = B,
                                            !.multiSig = {Sig(v, e, -l) : v \in S}])
             # "conflicting"
<1> DEFINE x == [ckpts[e] EXCEPT !.hash = -l, !.bitmap = B,
                                 !.multiSig = {Sig(v, e, -l) : v \in S}]
<1>1. x.epoch = e /\ x.hash = -l /\ x.bitmap = B /\ x.multiSig = {Sig(v, e, -l) : v \in S}
  BY DEF Sealed
<1> HIDE DEF x
<1>2. ~VerifyRawCheckpoint(x)
  <2>1. SUFFICES ASSUME HasTwoThirds(e, B),
                        {Sig(v, e, -l) : v \in S} = {Sig(v, e, -l) : v \in B}
                 PROVE  FALSE
    BY <1>1 DEF VerifyRawCheckpoint
  <2>2. ASSUME NEW v \in B PROVE v \in S
    <3>1. PICK w \in S : Sig(v, e, -l) = Sig(w, e, -l)
      BY <2>1
    <3>2. v = w
      BY <3>1 DEF Sig
    <3> QED BY <3>2
  <2>3. B \in SUBSET Faulty
    BY <2>2
  <2> QED BY <2>1, <2>3, FaultyIsNoQuorum
<1>3. verifyCkptBytes(x) # "conflicting"
  BY <1>1, <1>2 DEF verifyCkptBytes
<1> QED BY <1>3 DEF x

\* Every epoch that has ended is sealed by a checkpoint of its last block, with the
\* signatures of two thirds of the power of its own validator set, whatever vote
\* extensions and proposals the faulty validators made (buildCheckpointFromVoteExtensions,
\* ProcessProposal, PreBlocker); and their signatures alone never make a conflicting
\* checkpoint, which would halt the chain (verifyCkptBytes).
THEOREM EpochsSealedByTheirBlock == Spec => []SealedOfCommittedBlock
<1>1. IInv => SealedOfCommittedBlock
  <2>1. SUFFICES ASSUME IInv, NEW e \in 1 .. epoch - 1
                 PROVE  LET ck == ckpts[e]
                            last == GetLastBlockHeight(e)
                        IN /\ ck # None
                           /\ ck.hash = last
                           /\ HasTwoThirds(e, ck.bitmap)
                           /\ ck.multiSig = {Sig(v, e, last) : v \in ck.bitmap}
                           /\ \A B \in SUBSET Vals, S \in SUBSET Faulty :
                                verifyCkptBytes([ck EXCEPT !.hash = -last, !.bitmap = B,
                                                   !.multiSig = {Sig(v, e, -last) : v \in S}])
                                  # "conflicting"
    BY DEF SealedOfCommittedBlock
  <2> DEFINE l == GetLastBlockHeight(e)
  <2>2. e \in 1 .. LastEpoch /\ e < epoch /\ l \in Nat
    BY <2>1, SealAssumption, LastBlockOfNext DEF IInv, InRange
  <2>3. Sealed(ckpts[e], e, l)
    BY <2>1, <2>2 DEF IInv, Store
  <2> HIDE DEF l
  <2>4. /\ ckpts[e] # None /\ ckpts[e].hash = l /\ HasTwoThirds(e, ckpts[e].bitmap)
        /\ ckpts[e].multiSig = {Sig(v, e, l) : v \in ckpts[e].bitmap}
    BY <2>3 DEF Sealed
  <2>5. \A B \in SUBSET Vals, S \in SUBSET Faulty :
          verifyCkptBytes([ckpts[e] EXCEPT !.hash = -l, !.bitmap = B,
                             !.multiSig = {Sig(v, e, -l) : v \in S}]) # "conflicting"
    BY <2>2, <2>3, NoConflict
  <2> QED BY <2>4, <2>5 DEF l
<1> QED BY <1>1, SpecIInv, PTL

\* PreBlocker, which would halt every node, never fails on a proposal that
\* ProcessProposal accepted, and what it stores is a checkpoint of the right epoch.
THEOREM PreBlockerIsSafe == Spec => []PreBlockerNeverFails
<1>1. IInv => PreBlockerNeverFails
  BY TypeFollows DEF IInv, PreBlockerNeverFails
<1> QED BY <1>1, SpecIInv, PTL

\* The votes that an honest proposer prunes are those it has not used.
LEMMA PrunedVotes ==
    ASSUME epoch \in 1 .. LastEpoch, NEW c
    PROVE  SealedBy(epoch, Prune(epoch, c, {height}), height) = SealedBy(epoch, c, height)
<1> DEFINE p == Prune(epoch, c, {height})
           N == Len(VoteOrder[epoch])
<1>1. \A i \in 1 .. N : VoteOrder[epoch][i] \in Vals
  BY VoteOrderAssumption, MembersAreVals
<1>2. \A i \in 1 .. N : /\ IsValid(epoch, Vote(epoch, p, i), height) <=> IsValid(epoch, Vote(epoch, c, i), height)
                        /\ IsValid(epoch, Vote(epoch, c, i), height) => Vote(epoch, p, i) = Vote(epoch, c, i)
  <2>1. SUFFICES ASSUME NEW i \in 1 .. N
                 PROVE  /\ IsValid(epoch, Vote(epoch, p, i), height) <=> IsValid(epoch, Vote(epoch, c, i), height)
                        /\ IsValid(epoch, Vote(epoch, c, i), height) => Vote(epoch, p, i) = Vote(epoch, c, i)
    OBVIOUS
  <2>2. Vote(epoch, p, i) = IF IsValid(epoch, Vote(epoch, c, i), height) THEN Vote(epoch, c, i) ELSE None
    BY <1>1 DEF Prune, Vote
  <2>3. ~IsValid(epoch, None, height)
    BY DEF IsValid
  <2> QED BY <2>2, <2>3
<1> HIDE DEF p
<1>3. ASSUME NEW n \in 1 .. N
      PROVE  /\ Accumulate(epoch, p, height, n) = Accumulate(epoch, c, height, n)
             /\ {Vote(epoch, p, i).signer : i \in Accumulate(epoch, p, height, n)}
                  = {Vote(epoch, c, i).signer : i \in Accumulate(epoch, c, height, n)}
             /\ {Vote(epoch, p, i).sig : i \in Accumulate(epoch, p, height, n)}
                  = {Vote(epoch, c, i).sig : i \in Accumulate(epoch, c, height, n)}
  <2>1. \A i \in 1 .. n : i \in 1 .. N /\ \A j \in 1 .. i - 1 : j \in 1 .. N
    BY <1>3
  <2>2. Accumulate(epoch, p, height, n) = Accumulate(epoch, c, height, n)
    <3>1. ASSUME NEW i \in 1 .. n
          PROVE  i \in Accumulate(epoch, p, height, n) <=> i \in Accumulate(epoch, c, height, n)
      BY <1>2, <2>1 DEF Accumulate
    <3> QED BY <3>1 DEF Accumulate
  <2>3. \A i \in Accumulate(epoch, c, height, n) : Vote(epoch, p, i) = Vote(epoch, c, i)
    BY <1>2, <2>1 DEF Accumulate
  <2> QED BY <2>2, <2>3
<1> DEFINE Enough(d) == {n \in 1 .. N : HasTwoThirds(epoch,
                           {Vote(epoch, d, i).signer : i \in Accumulate(epoch, d, height, n)})}
<1>4. Enough(p) = Enough(c)
  <2>1. \A n \in 1 .. N : {Vote(epoch, p, i).signer : i \in Accumulate(epoch, p, height, n)}
                            = {Vote(epoch, c, i).signer : i \in Accumulate(epoch, c, height, n)}
    BY <1>3
  <2> QED BY <2>1
<1>5. CASE Enough(c) = {}
  <2>1. ASSUME NEW d, Enough(d) = {} PROVE SealedBy(epoch, d, height) = None
    BY <2>1 DEF SealedBy
  <2> HIDE DEF Enough
  <2> QED BY <1>4, <1>5, <2>1 DEF p
<1>6. CASE Enough(c) # {}
  <2>1. Min(Enough(c)) \in 1 .. N
    <3>1. Enough(c) \in SUBSET Int /\ \A n \in Enough(c) : 1 <= n
      OBVIOUS
    <3>2. Min(Enough(c)) \in Enough(c)
      <4> HIDE DEF Enough
      <4> QED BY <1>6, <3>1, MinOfBounded
    <3> QED BY <3>2
  <2>2. ASSUME NEW d, Enough(d) = Enough(c)
        PROVE  SealedBy(epoch, d, height) =
                 [epoch |-> epoch, hash |-> height,
                  bitmap |-> {Vote(epoch, d, i).signer : i \in Accumulate(epoch, d, height, Min(Enough(c)))},
                  multiSig |-> {Vote(epoch, d, i).sig : i \in Accumulate(epoch, d, height, Min(Enough(c)))}]
    BY <1>6, <2>2 DEF SealedBy
  <2> HIDE DEF Enough
  <2> QED BY <1>3, <1>4, <2>1, <2>2 DEF p
<1> QED BY <1>5, <1>6 DEF p

\* The votes that CometBFT has verified survive the pruning, and they are a quorum.
LEMMA PrunedIsAccepted ==
    ASSUME HonestVotes, epoch \in 1 .. LastEpoch, height \in Nat, height > 0,
           height = GetLastBlockHeight(epoch),
           NEW seen \in SUBSET Members(epoch), IsLastCommit(seen),
           NEW c, c = LocalLastCommit(seen), buildCheckpointFromVoteExtensions(epoch, c) # None,
           NEW r, r.commit = Prune(epoch, c, findLastBlockHash(epoch, c)),
           r.ckpt = buildCheckpointFromVoteExtensions(epoch, c)
    PROVE  ProcessProposal(r)
<1> DEFINE p == Prune(epoch, c, {height})
           F == {v \in {u \in Present(epoch, p) : p[u] # Empty} : p[v].hash = height}
<1>1. OfVotes(c) /\ findLastBlockHash(epoch, c) = {height} /\ r.commit = p
      /\ buildCheckpointFromVoteExtensions(epoch, c) = SealedBy(epoch, c, height)
  BY LocalCommit, OnlyCommittedHash
<1>2. OfVotes(p)
  BY <1>1 DEF OfVotes, Prune
<1>3. PICK first \in SUBSET seen : /\ \A v \in first : VerifyVoteExtension(v, ext[v])
                                   /\ IsQuorum(epoch, PowerOf(epoch, first))
  BY DEF IsLastCommit
<1>4. ASSUME NEW v \in first PROVE v \in F /\ v \in Present(epoch, p)
  <2>1. v \in Members(epoch) /\ v \in Vals /\ c[v] = ext[v] /\ ext[v] # None
    BY <1>4, MembersAreVals DEF LocalLastCommit, HonestVotes
  <2>2. VerifyVoteExtension(v, ext[v])
    BY <1>3, <1>4
  <2>3. IsValid(epoch, c[v], height) /\ c[v] # Empty /\ c[v].hash = height
    BY <2>1, <2>2 DEF VerifyVoteExtension, IsValid
  <2>4. p[v] = c[v]
    BY <2>1, <2>3 DEF Prune
  <2> QED BY <2>1, <2>3, <2>4 DEF Present
<1>5. F \in SUBSET Vals /\ Present(epoch, p) \in SUBSET Vals /\ first \in SUBSET Vals
  BY MembersAreVals DEF Present
<1>6. ASSUME NEW S \in SUBSET Vals, first \subseteq S PROVE IsQuorum(epoch, PowerOf(epoch, S))
  <2>1. /\ PowerOf(epoch, first) \in Nat /\ PowerOf(epoch, S) \in Nat
        /\ PowerOf(epoch, Vals) \in Nat /\ PowerOf(epoch, first) <= PowerOf(epoch, S)
    BY <1>5, <1>6, SealAssumption
  <2> QED BY <1>3, <2>1 DEF IsQuorum
<1>7. ValidateVoteExtensions(epoch, p) /\ height \in findLastBlockHash(epoch, p)
  <2>1. IsQuorum(epoch, PowerOf(epoch, Present(epoch, p))) /\ IsQuorum(epoch, PowerOf(epoch, F))
    BY <1>4, <1>5, <1>6
  <2>2. PICK v \in F : p[v].hash = height
    <3>1. F \notin SUBSET Faulty
      BY <2>1, FaultyIsNoQuorum
    <3> QED BY <3>1
  <2>3. height \in {p[w].hash : w \in {u \in Present(epoch, p) : p[u] # Empty}}
    BY <2>2
  <2> QED BY <2>1, <2>3 DEF ValidateVoteExtensions, findLastBlockHash
<1> HIDE DEF F
<1>8. buildCheckpointFromVoteExtensions(epoch, p) = SealedBy(epoch, p, height)
  BY <1>2, <1>7, OnlyCommittedHash
<1>9. SealedBy(epoch, p, height) = SealedBy(epoch, c, height)
  BY PrunedVotes
<1> HIDE DEF p
<1> QED BY <1>1, <1>7, <1>8, <1>9 DEF ProcessProposal

\* The verdict on a proposal depends on the height and the epoch alone.
LEMMA SameVerdict ==
    ASSUME UNCHANGED <<height, epoch>>
    PROVE  ProcessProposal(proposal)' <=> ProcessProposal(proposal')
BY DEF ProcessProposal

\* An honest proposer that could build a checkpoint does not lose its round: whatever
\* unverified vote extensions are among its votes, the votes it leaves in the
\* proposal (getValidBlsSigsAndPruneCommitInfo) are a quorum, and every validator
\* builds the same checkpoint from them (ProcessProposal).
THEOREM HonestProposalsPass == Spec => []HonestProposalAccepted
<1>1. Init => HonestProposalAccepted
  BY DEF Init, HonestProposalAccepted
<1>2. IInv /\ HonestProposalAccepted /\ [Next]_vars => HonestProposalAccepted'
  <2>1. SUFFICES ASSUME IInv, HonestProposalAccepted, [Next]_vars, proposal' # None,
                        proposal'.honest, proposal'.ckpt # None
                 PROVE  ProcessProposal(proposal)'
    BY DEF HonestProposalAccepted
  <2>2. CASE UNCHANGED <<proposal, height, epoch>>
    <3>1. ProcessProposal(proposal)
      BY <2>1, <2>2 DEF HonestProposalAccepted
    <3> QED BY <2>2, <3>1, SameVerdict
  <2>3. ASSUME NEW seen \in SUBSET Members(epoch), PrepareProposal(seen)
        PROVE  ProcessProposal(proposal)'
    <3> DEFINE c == LocalLastCommit(seen)
    <3>1. /\ proposal' = [honest |-> TRUE, commit |-> Prune(epoch, c, findLastBlockHash(epoch, c)),
                          ckpt |-> IF ValidateVoteExtensions(epoch, c)
                                   THEN buildCheckpointFromVoteExtensions(epoch, c) ELSE None]
          /\ IsVoteExtensionProposal /\ IsLastCommit(seen)
          /\ UNCHANGED <<height, epoch>>
      BY <2>3 DEF PrepareProposal
    <3> HIDE DEF c
    <3>2. /\ proposal'.commit = Prune(epoch, c, findLastBlockHash(epoch, c))
          /\ proposal'.ckpt = buildCheckpointFromVoteExtensions(epoch, c)
          /\ buildCheckpointFromVoteExtensions(epoch, c) # None
      BY <2>1, <3>1
    <3>3. /\ HonestVotes /\ epoch \in 1 .. LastEpoch /\ height \in Nat /\ height > 0
          /\ height = GetLastBlockHeight(epoch)
      BY <2>1, <3>1, AtTheEnd DEF IInv
    <3>4. ProcessProposal(proposal')
      BY <2>3, <3>1, <3>2, <3>3, PrunedIsAccepted DEF c
    <3> QED BY <3>1, <3>4, SameVerdict
  <2>4. CASE FaultyProposal
    <3>1. PICK ck, c : proposal' = [honest |-> FALSE, ckpt |-> ck, commit |-> c]
      BY <2>4 DEF FaultyProposal
    <3> QED BY <2>1, <3>1
  <2>5. CASE OrdinaryBlock \/ LastBlock \/ FirstBlock \/ RejectProposal
    <3>1. proposal' = None
      BY <2>5 DEF OrdinaryBlock, LastBlock, FirstBlock, RejectProposal, Commit
    <3> QED BY <2>1, <3>1
  <2> QED BY <2>1, <2>2, <2>3, <2>4, <2>5 DEF Next, vars
<1> QED BY <1>1, <1>2, SpecIInv, PTL DEF Spec
=============================================================================
