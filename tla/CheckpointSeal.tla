--------------------------- MODULE CheckpointSeal ---------------------------
(***************************************************************************)
(* x/checkpointing between two epochs: the BLS signatures that validators  *)
(* send in the vote extensions of the last block of an epoch, the proposal *)
(* of the next block that injects the checkpoint built from them, and the  *)
(* PreBlocker that seals it.                                               *)
(*                                                                         *)
(* CometBFT is external. It decides the blocks; it has every extension     *)
(* verified until it has a quorum and none that arrives later              *)
(* (cometbft#2361), and it signs extensions, so that a proposer can leave  *)
(* one out and cannot change it. A faulty validator sends anything its own *)
(* key, or a signature it has seen, allows.                                *)
(*                                                                         *)
(* The hash of the committed block of a height is the height, and that of  *)
(* another block is negative. A BLS signature is the record of who signed  *)
(* what; an aggregate is the set of its signatures.                        *)
(***************************************************************************)
EXTENDS Integers, FiniteSetsExt, SequencesExt

CONSTANTS
    Vals,      \* the validators, ordered as their addresses are
    Faulty,    \* those that do not follow the protocol
    Powers,    \* the stored validator set of every epoch from 1 on, 0 for no member
    VoteOrder, \* of every epoch, its members in the order of the votes of a commit
    Interval   \* the blocks of an epoch

LastEpoch == Len(Powers)   \* bound: the last epoch that is sealed
PowerSums == [e \in 1 .. LastEpoch |-> [S \in SUBSET Vals |->
                MapThenSumSet(LAMBDA v : Powers[e][v], S)]]
PowerOf(e, S) == PowerSums[e][S]
Members(e) == {v \in Vals : e \in 1 .. LastEpoch /\ Powers[e][v] > 0}

\* CometBFT orders the votes of a commit by power, then by address.
Precedes(e, v, w) ==
    Powers[e][v] > Powers[e][w] \/ (Powers[e][v] = Powers[e][w] /\ v < w)

ASSUME VoteOrderAssumption ==
    \A e \in 1 .. LastEpoch :
        /\ VoteOrder[e] \in Seq(Members(e)) /\ Members(e) \subseteq ToSet(VoteOrder[e])
        /\ \A i, j \in DOMAIN VoteOrder[e] :
             i < j => Precedes(e, VoteOrder[e][i], VoteOrder[e][j])

\* Less than a third of the power of an epoch is faulty.
ASSUME SealAssumption ==
    /\ Vals \subseteq Nat /\ IsFiniteSet(Vals) /\ Faulty \subseteq Vals
    /\ Interval \in Nat /\ Interval >= 2
    /\ LastEpoch \in Nat
    /\ \A e \in 1 .. LastEpoch :
         /\ Powers[e] \in [Vals -> Nat]
         /\ \A S \in SUBSET Vals : PowerOf(e, S) \in Nat
         /\ \A S, T \in SUBSET Vals : S \subseteq T => PowerOf(e, S) <= PowerOf(e, T)
         /\ \A S \in SUBSET Faulty : 3 * PowerOf(e, S) < PowerOf(e, Vals)

VARIABLES
    height,    \* the last committed block
    epoch,     \* the epoch in the committed state
    ext,       \* the vote extensions of the precommits for that block
    proposal,  \* the proposal of the next block, in this round
    ckpts,     \* the checkpoint store
    halted     \* TRUE when the PreBlocker returned an error

vars == <<height, epoch, ext, proposal, ckpts, halted>>

None == [none |-> TRUE]
Empty == [empty |-> TRUE]

-----------------------------------------------------------------------------
(* Epochs: x/epoching/types/epoching.go. *)

GetLastBlockHeight(e) == e * Interval

IsFirstBlockOfNextEpoch(e, h) == h = GetLastBlockHeight(e) + 1

IsVoteExtensionProposal == epoch > 0 /\ IsFirstBlockOfNextEpoch(epoch, height + 1)

-----------------------------------------------------------------------------
(* Vote extensions: vote_extensions/vote_ext.go. *)

Sig(v, e, b) == [by |-> v, epoch |-> e, hash |-> b]

Extension(v, w, e, b) ==
    [val |-> v, signer |-> w, epoch |-> e, hash |-> b, sig |-> Sig(w, e, b)]

\* Only the last block of an epoch is signed.
ExtendVote(v, e, h) == IF h = GetLastBlockHeight(e) THEN Extension(v, v, e, h) ELSE Empty

\* What a faulty validator v sends: nothing, its own signature, one over another
\* epoch or another block, a wrong one, or another validator's signature or vote
\* extension.
FaultyExtensions(v, e, h) ==
    {Empty, Extension(v, v, e, h), Extension(v, v, e - 1, h), Extension(v, v, e, -h),
     [Extension(v, v, e, h) EXCEPT !.sig = Sig(v, e, -h)]}
      \cup UNION {{Extension(v, w, e, h), Extension(w, w, e, h)} : w \in Members(e) \ Faulty}

VerifyBLSSig(x) == x.sig = Sig(x.signer, x.epoch, x.hash)

\* ValidatorAddress has to be the sender; Signer is whoever made the signature.
VerifyVoteExtension(v, x) ==
    /\ x # Empty
    /\ x.epoch = epoch
    /\ x.val = v
    /\ x.hash = height
    /\ VerifyBLSSig(x)

-----------------------------------------------------------------------------
(* Proposals: prepare/proposal.go. A commit holds for every validator what *)
(* its vote carries, or None if the vote is absent.                        *)

IsQuorum(e, n) == n >= (2 * PowerOf(e, Vals)) \div 3 + 1

HasTwoThirds(e, S) == 3 * PowerOf(e, S) > 2 * PowerOf(e, Vals)

Present(e, c) == {v \in Members(e) : c[v] # None}

\* The precommits that a node has when the next block is proposed.
LocalLastCommit(seen) == [v \in Vals |-> IF v \in seen THEN ext[v] ELSE None]

\* It has verified them until it had a quorum.
IsLastCommit(seen) ==
    \E first \in SUBSET seen :
        /\ \A v \in first : VerifyVoteExtension(v, ext[v])
        /\ IsQuorum(epoch, PowerOf(epoch, first))

\* ValidateVoteExtensions of the SDK.
ValidateVoteExtensions(e, c) == IsQuorum(e, PowerOf(e, Present(e, c)))

\* Mutant: two different hashes among the extensions are an error.
findLastBlockHashUnanimous(e, c) ==
    LET decoded == {v \in Present(e, c) : c[v] # Empty}
    IN {b \in {c[v].hash : v \in decoded} :
          IsQuorum(e, PowerOf(e, decoded)) /\ \A v \in decoded : c[v].hash = b}

\* The hash, if there is one, with a quorum among the extensions that can be decoded.
findLastBlockHash(e, c) ==
    LET decoded == {v \in Present(e, c) : c[v] # Empty}
    IN {b \in {c[v].hash : v \in decoded} :
          IsQuorum(e, PowerOf(e, {v \in decoded : c[v].hash = b}))}

\* Mutant: the epoch of the extension is not compared.
IsValidAnyEpoch(e, x, b) == x # None /\ x # Empty /\ x.hash = b /\ VerifyBLSSig(x)

\* VerifyVoteExtension of the proposal handler.
IsValid(e, x, b) ==
    x # None /\ x # Empty /\ x.epoch = e /\ x.hash = b /\ VerifyBLSSig(x)

\* Mutant: the votes that carry another validator's extension become absent too.
PruneForeign(e, c, found) ==
    [v \in Vals |-> IF (\E b \in found : IsValid(e, c[v], b)) /\ c[v].val = v
                    THEN c[v] ELSE None]

\* getValidBlsSigsAndPruneCommitInfo makes invalid votes absent.
Prune(e, c, found) ==
    [v \in Vals |-> IF \E b \in found : IsValid(e, c[v], b) THEN c[v] ELSE None]

Vote(e, c, i) == c[VoteOrder[e][i]]

\* Accumulate, called for the valid extensions among the first n votes: the votes it
\* adds. The signature of a stranger, or of a validator that has signed already, is
\* skipped.
Accumulate(e, c, b, n) ==
    {i \in 1 .. n :
       /\ IsValid(e, Vote(e, c, i), b) /\ Vote(e, c, i).signer \in Members(e)
       /\ \A j \in 1 .. i - 1 :
            IsValid(e, Vote(e, c, j), b) => Vote(e, c, j).signer # Vote(e, c, i).signer}

\* The checkpoint over b is sealed by the first votes that are enough.
SealedBy(e, c, b) ==
    LET Signers(n) == {Vote(e, c, i).signer : i \in Accumulate(e, c, b, n)}
        enough == {n \in 1 .. Len(VoteOrder[e]) : HasTwoThirds(e, Signers(n))}
    IN IF enough = {} THEN None
       ELSE [epoch |-> e, hash |-> b, bitmap |-> Signers(Min(enough)),
             multiSig |-> {Vote(e, c, i).sig : i \in Accumulate(e, c, b, Min(enough))}]

buildCheckpointFromVoteExtensions(e, c) ==
    LET built == {SealedBy(e, c, b) : b \in findLastBlockHash(e, c)}
    IN IF built = {} THEN None ELSE CHOOSE ck \in built : TRUE

\* If no checkpoint can be built from the votes that the proposer has, the error
\* makes baseapp propose a block without one.
PrepareProposal(seen) ==
    /\ IsVoteExtensionProposal /\ proposal = None /\ ~halted
    /\ IsLastCommit(seen)
    /\ \E c \in {LocalLastCommit(seen)} :
         proposal' = [honest |-> TRUE, commit |-> Prune(epoch, c, findLastBlockHash(epoch, c)),
                      ckpt |-> IF ValidateVoteExtensions(epoch, c)
                               THEN buildCheckpointFromVoteExtensions(epoch, c) ELSE None]
    /\ UNCHANGED <<height, epoch, ext, ckpts, halted>>

\* A faulty proposer injects any of the votes, and a checkpoint built from others.
FaultyProposal ==
    /\ IsVoteExtensionProposal /\ proposal = None /\ ~halted
    /\ Members(epoch) \cap Faulty # {}
    /\ LET commits == {LocalLastCommit(seen) : seen \in SUBSET Members(epoch)}
       IN \E ck \in {buildCheckpointFromVoteExtensions(epoch, d) : d \in commits} : \E c \in commits :
            proposal' = [honest |-> FALSE, ckpt |-> ck, commit |-> c]
    /\ UNCHANGED <<height, epoch, ext, ckpts, halted>>

ProcessProposal(p) ==
    /\ p.ckpt # None
    /\ ValidateVoteExtensions(epoch, p.commit)
    /\ buildCheckpointFromVoteExtensions(epoch, p.commit) = p.ckpt

\* Mutant: the aggregate is not verified.
VerifyRawCheckpointPowerOnly(ck) == HasTwoThirds(ck.epoch, ck.bitmap)

\* The signers of the bitmap have a quorum, and the aggregate is the one of their
\* signatures over the epoch and the hash.
VerifyRawCheckpoint(ck) ==
    /\ HasTwoThirds(ck.epoch, ck.bitmap)
    /\ ck.multiSig = {Sig(v, ck.epoch, ck.hash) : v \in ck.bitmap}

CanSeal(ck) ==
    VerifyRawCheckpoint(ck) /\ ckpts[ck.epoch] = None

\* verifyCkptBytes: what becomes of a checkpoint that is read from Bitcoin.
verifyCkptBytes(ck) ==
    CASE ck = ckpts[ck.epoch] -> "valid"
      [] ck # ckpts[ck.epoch] /\ ~VerifyRawCheckpoint(ck) -> "invalid"
      [] ck # ckpts[ck.epoch] /\ VerifyRawCheckpoint(ck) ->
           IF ck.hash = ckpts[ck.epoch].hash THEN "valid" ELSE "conflicting"

-----------------------------------------------------------------------------
(* Blocks. *)

\* The next block is committed in epoch e, with the precommits of its members.
Commit(e, precommits) ==
    /\ height' = height + 1
    /\ epoch' = e
    /\ ext' = [v \in Vals |-> IF v \in Members(e) THEN precommits[v] ELSE None]
    /\ proposal' = None

\* A block that needs no checkpoint and is not the last one of its epoch.
OrdinaryBlock ==
    LET e == IF IsFirstBlockOfNextEpoch(epoch, height + 1) THEN epoch + 1 ELSE epoch IN
    /\ ~IsVoteExtensionProposal /\ ~halted
    /\ height + 1 # GetLastBlockHeight(e) /\ e <= LastEpoch
    /\ Commit(e, [v \in Vals |-> ExtendVote(v, e, height + 1)])
    /\ UNCHANGED <<ckpts, halted>>

\* The last block of an epoch, f the extensions of the faulty validators.
LastBlock ==
    /\ height + 1 = GetLastBlockHeight(epoch) /\ ~halted /\ epoch <= LastEpoch
    /\ \E f \in {g \in [Faulty -> UNION {FaultyExtensions(v, epoch, height + 1) : v \in Faulty}] :
                  \A v \in Faulty : g[v] \in FaultyExtensions(v, epoch, height + 1)} :
         Commit(epoch, [v \in Vals |-> IF v \in Faulty THEN f[v]
                                       ELSE ExtendVote(v, epoch, height + 1)])
    /\ UNCHANGED <<ckpts, halted>>

\* PreBlocker seals the checkpoint of the epoch that ends.
PreBlocker ==
    LET ck == proposal.ckpt IN
    IF CanSeal(ck)
    THEN ckpts' = [ckpts EXCEPT ![ck.epoch] = ck] /\ UNCHANGED halted
    ELSE halted' = TRUE /\ UNCHANGED ckpts

\* The first block of an epoch, if the validators accept its proposal.
FirstBlock ==
    /\ proposal # None /\ ~halted
    /\ ProcessProposal(proposal)
    /\ Commit(epoch + 1, [v \in Vals |-> ExtendVote(v, epoch + 1, height + 1)])
    /\ PreBlocker

\* The validators reject it, and the next round begins.
RejectProposal ==
    /\ proposal # None /\ ~halted
    /\ ~ProcessProposal(proposal)
    /\ proposal' = None
    /\ UNCHANGED <<height, epoch, ext, ckpts, halted>>

Init ==
    /\ height = 0 /\ epoch = 0
    /\ ext = [v \in Vals |-> None]
    /\ proposal = None
    /\ ckpts = [e \in 1 .. LastEpoch |-> None]
    /\ halted = FALSE

Next ==
    \/ OrdinaryBlock
    \/ LastBlock
    \/ \E seen \in SUBSET Members(epoch) : PrepareProposal(seen)
    \/ FaultyProposal
    \/ FirstBlock
    \/ RejectProposal

Spec == Init /\ [][Next]_vars

\* Honest nodes take part in every step, and time and again the proposer is an
\* honest one that has the precommits of all honest validators.
FairSpec ==
    /\ Spec
    /\ WF_vars(OrdinaryBlock \/ LastBlock \/ FirstBlock \/ RejectProposal)
    /\ SF_vars(\E late \in SUBSET (Members(epoch) \cap Faulty) :
                 PrepareProposal((Members(epoch) \ Faulty) \cup late))

-----------------------------------------------------------------------------
(* Properties. *)

Checkpoints(e) ==
    [epoch : {e}, hash : {GetLastBlockHeight(e), -GetLastBlockHeight(e)}, bitmap : SUBSET Vals,
     multiSig : SUBSET {Sig(v, n, b) : v \in Vals, n \in {e - 1, e},
                                       b \in {GetLastBlockHeight(e), -GetLastBlockHeight(e)}}]

\* The type of the state: in the store every checkpoint is one of its own epoch.
TypeOK ==
    /\ height \in Nat
    /\ epoch \in 0 .. LastEpoch + 1
    /\ height \in (epoch - 1) * Interval + 1 .. epoch * Interval
    /\ DOMAIN ext = Vals
    /\ \A v \in Members(epoch) \ Faulty : ext[v] = ExtendVote(v, epoch, height)
    /\ \A e \in 1 .. LastEpoch : ckpts[e] = None \/ ckpts[e] \in Checkpoints(e)
    /\ proposal # None => IsVoteExtensionProposal
    /\ halted \in BOOLEAN

\* Every epoch that has ended has a checkpoint (PreBlocker), of the block that was
\* committed last in it, with a quorum of signers who all signed it; and whatever
\* else the signatures of the faulty validators are put together to, no other
\* block of the epoch passes verifyCkptBytes as a conflicting checkpoint.
SealedOfCommittedBlock ==
    \A e \in 1 .. epoch - 1 : ~halted =>
        LET ck == ckpts[e]
            last == GetLastBlockHeight(e)
        IN /\ ck # None
           /\ ck.hash = last
           /\ HasTwoThirds(e, ck.bitmap)
           /\ ck.multiSig = {Sig(v, e, last) : v \in ck.bitmap}
           /\ \A B \in SUBSET Vals, S \in SUBSET Faulty :
                verifyCkptBytes([ck EXCEPT !.hash = -last, !.bitmap = B,
                                           !.multiSig = {Sig(v, e, -last) : v \in S}])
                  # "conflicting"

\* A checkpoint that an honest proposer could build, every honest validator accepts
\* (ProcessProposal), whatever late and unverified vote extensions the proposer
\* has among its votes: it does not lose its round.
HonestProposalAccepted ==
    proposal # None => (proposal.honest /\ proposal.ckpt # None => ProcessProposal(proposal))

\* A proposal that the validators accepted is never one that PreBlocker fails on,
\* which would halt the chain; it stores a checkpoint of the right epoch, and the
\* state stays well typed.
PreBlockerNeverFails == TypeOK /\ ~halted

\* Every epoch is sealed and the next one begins, although faulty validators may
\* send anything in their vote extensions.
EpochsAreSealed ==
    <>(epoch = LastEpoch + 1 /\ \A e \in 1 .. LastEpoch : ckpts[e] # None)

=============================================================================
