------------------------------ MODULE Finality ------------------------------
(***************************************************************************)
(* The finality round of Babylon, x/finality: public randomness, finality  *)
(* votes, equivocation evidence, the voting power table, tallying,         *)
(* liveness tracking with jailing, rewarding, and the governance proposal  *)
(* that resumes a halted finality.                                         *)
(*                                                                         *)
(* A block is BeginBlock, then any number of messages in phase "deliver",  *)
(* then gov proposals (the gov EndBlocker runs before the one of this      *)
(* module), then EndBlock. Block time is the height.                       *)
(*                                                                         *)
(* The registry (slashed, jailed) belongs to x/btcstaking. Its events      *)
(* queue is kept here as `pending', the last event of each provider since  *)
(* the previous BeginBlock (a slashing overrides the others, as it does in *)
(* ProcessAllPowerDistUpdateEvents); the sats that BTC delegations bring   *)
(* are an input of BeginBlock. Module BTCStaking has both in full.         *)
(***************************************************************************)
EXTENDS PowerTable, Sequences

CONSTANTS
    InitHeight,                   \* height before the first block of the model
    MaxHeight,                    \* bound: last block of the model
    MaxCommits,                   \* bound: randomness commits of a provider
    ForkHashes,                   \* app hashes that are not the indexed one
    SatsTables,                   \* possible bonded sats at a BeginBlock
    ResumeLists,                  \* possible provider lists of a proposal
    ResumeOnlyHalted,             \* proposals name a height finality waits at
    PubRandNums,                  \* possible NumPubRand of a commit
    InitialCommits,               \* randomness committed before the model starts
    DeletedFPs,                   \* soft-deleted providers (genesis, upgrades)
    EpochInterval,                \* x/epoching parameter
    \* parameters and constants of x/finality
    FinalityActivationHeight, MaxActiveFinalityProviders, SignedBlocksWindow,
    MinSignedPerWindow, FinalitySigTimeout, JailDuration, MinPubRand,
    MaxPubRandCommitOffset, MaxFinalizedRewardedBlocksPerEndBlock

Heights == (InitHeight + 1)..MaxHeight
Canonical == "canonical"
Hashes == ForkHashes \cup {Canonical}
Commit == [start : Nat, num : Nat, epoch : Nat]

ASSUME ParamsAssumption ==
    /\ InitHeight \in Nat /\ MaxHeight \in Nat /\ MaxCommits \in Nat
    /\ InitHeight <= MaxHeight
    /\ Canonical \notin ForkHashes
    /\ SatsTables \subseteq [FPs -> Nat]
    /\ ResumeLists \subseteq SUBSET FPs
    /\ ResumeOnlyHalted \in BOOLEAN
    /\ PubRandNums \subseteq Nat
    /\ InitialCommits \in [FPs -> Seq(Commit)]
    /\ DeletedFPs \subseteq FPs
    /\ EpochInterval \in Nat \ {0}
    /\ FinalityActivationHeight \in Nat
    /\ MaxActiveFinalityProviders \in Nat \ {0}
    /\ SignedBlocksWindow \in Nat \ {0}
    /\ MinSignedPerWindow \in 0..SignedBlocksWindow
    /\ FinalitySigTimeout \in Nat \ {0}
    /\ JailDuration \in Nat
    /\ MinPubRand \in Nat
    /\ MaxPubRandCommitOffset \in Nat
    /\ MaxFinalizedRewardedBlocksPerEndBlock \in Nat \ {0}

\* CalculateEpochNumber of x/epoching: epoch 0 is the genesis block.
GetEpochByHeight(h) == IF h = 0 THEN 0 ELSE ((h - 1) \div EpochInterval) + 1

EndHeight(c) == c.start + c.num - 1

\* What CommitPubRandList guarantees of the commits of a provider.
ASSUME InitialCommitsAssumption ==
    \A f \in FPs : \A i \in 1..Len(InitialCommits[f]) :
        /\ InitialCommits[f][i].start >= FinalityActivationHeight
        /\ InitialCommits[f][i].epoch <= GetEpochByHeight(InitHeight)
        /\ i > 1 => EndHeight(InitialCommits[f][i - 1]) < InitialCommits[f][i].start

VARIABLES
    height, phase,        \* current block and what of it has been executed
    lastFinalizedEpoch,   \* last epoch finalized by BTC timestamping
    slashed, jailed,      \* flags of the registry of x/btcstaking
    pending,              \* power distribution events of providers
    cache, cached,        \* distribution cache by height; heights that have one
    power,                \* voting power table by height
    commits,              \* public randomness commits of each provider
    sigs,                 \* by height, the providers with a stored finality sig
    highestVoted,         \* HighestVotedHeight of each provider
    evidence,             \* by height and provider, the app hashes signed in the
                          \* stored evidence; {} if there is none
    refundable,           \* by height, providers whose vote message is refunded
    indexed, finalized,   \* indexed blocks; those marked finalized
    nextFinalize, nextReward,
    tracked, info,        \* providers with signing info; the signing infos
    bitmap,               \* missed-block bitmaps
    rewarded,             \* history: how often each height was rewarded
    votes,                \* history: by height and provider, accepted app hashes
    jailedAt              \* history: height at which each provider was jailed

registryVars == <<slashed, jailed, pending>>
powerVars == <<cache, cached, power>>
voteVars == <<sigs, highestVoted, evidence, refundable, votes>>
blockVars == <<indexed, finalized, nextFinalize, nextReward, rewarded>>
livenessVars == <<tracked, info, bitmap, jailedAt>>
vars == <<height, phase, lastFinalizedEpoch, commits, registryVars, powerVars,
          voteVars, blockVars, livenessVars>>

SigningInfo == [start : Nat, missed : Int, until : Nat]

TypeOK ==
    /\ height \in InitHeight..MaxHeight
    /\ phase \in {"commit", "deliver", "gov"}
    /\ lastFinalizedEpoch \in Nat
    /\ slashed \subseteq FPs /\ jailed \subseteq FPs
    /\ pending \in [FPs -> {"NONE", "JAILED", "UNJAILED", "SLASHED"}]
    /\ cache \in [Heights -> Dist] /\ cached \subseteq Heights
    /\ power \in [Heights -> Table]
    /\ commits \in [FPs -> Seq(Commit)]
    /\ sigs \in [Heights -> SUBSET FPs]
    /\ highestVoted \in [FPs -> Nat]
    /\ evidence \in [Heights -> [FPs -> SUBSET Hashes]]
    /\ refundable \in [Heights -> SUBSET FPs]
    /\ indexed \subseteq Heights /\ finalized \subseteq Heights
    /\ nextFinalize \in Nat /\ nextReward \in Nat
    /\ tracked \subseteq FPs
    /\ info \in [FPs -> SigningInfo]
    /\ bitmap \in [FPs -> SUBSET (0..SignedBlocksWindow - 1)]
    /\ rewarded \in [Heights -> Nat]
    /\ votes \in [Heights -> [FPs -> SUBSET Hashes]]
    /\ jailedAt \in [FPs -> Nat]

Init ==
    /\ height = InitHeight /\ phase = "commit"
    /\ lastFinalizedEpoch = GetEpochByHeight(InitHeight + 1) - 1
    /\ slashed = {} /\ jailed = {} /\ pending = [f \in FPs |-> "NONE"]
    /\ cache = [h \in Heights |-> EmptyDist] /\ cached = {}
    /\ power = [h \in Heights |-> EmptyTable]
    /\ commits = InitialCommits
    /\ sigs = [h \in Heights |-> {}]
    /\ highestVoted = [f \in FPs |-> 0]
    /\ evidence = [h \in Heights |-> [f \in FPs |-> {}]]
    /\ refundable = [h \in Heights |-> {}]
    /\ indexed = {} /\ finalized = {} /\ nextFinalize = 0 /\ nextReward = 0
    /\ tracked = {} /\ info = [f \in FPs |-> [start |-> 0, missed |-> 0, until |-> 0]]
    /\ bitmap = [f \in FPs |-> {}]
    /\ rewarded = [h \in Heights |-> 0]
    /\ votes = [h \in Heights |-> [f \in FPs |-> {}]]
    /\ jailedAt = [f \in FPs |-> 0]

-----------------------------------------------------------------------------
\* Public randomness (public_randomness.go)

\* The commit with the largest start height not above h, if it covers h.
PubRandCommitsForHeight(f, h) ==
    {c \in Range(commits[f]) :
        /\ c.start <= h /\ h <= EndHeight(c)
        /\ \A d \in Range(commits[f]) : d.start <= h => d.start <= c.start}

HasTimestampedPubRand(f, h) ==
    /\ lastFinalizedEpoch # 0
    /\ \E c \in PubRandCommitsForHeight(f, h) : c.epoch <= lastFinalizedEpoch

CommitPubRandList(f, start, num) ==
    /\ phase = "deliver"
    /\ start < height + MaxPubRandCommitOffset
    /\ start >= FinalityActivationHeight
    /\ num >= MinPubRand
    /\ f \notin DeletedFPs
    /\ Len(commits[f]) < MaxCommits
    /\ commits[f] # <<>> => start > EndHeight(commits[f][Len(commits[f])])
    /\ commits' = [commits EXCEPT ![f] =
         Append(@, [start |-> start, num |-> num, epoch |-> GetEpochByHeight(height)])]
    /\ UNCHANGED <<height, phase, lastFinalizedEpoch, registryVars, powerVars,
                   voteVars, blockVars, livenessVars>>

-----------------------------------------------------------------------------
\* BeginBlock: UpdatePowerDist (power_dist_change.go)

\* Slashed in this block, or a provider without an entry that is slashed.
Dropped(old, f) == pending[f] = "SLASHED" \/ (f \notin Entries(old) /\ f \in slashed)

\* The jailed flag of an entry: the last event, else the old entry, else the
\* registry (a new entry is built from it).
FlaggedJailed(old, f) ==
    \/ pending[f] = "JAILED"
    \/ pending[f] # "UNJAILED" /\ (IF f \in Entries(old) THEN f \in old.jailed ELSE f \in jailed)

\* Mutant: a commit counts before it is timestamped.
StampedUntimely(entries, h) == {f \in entries : PubRandCommitsForHeight(f, h) # {}}

Stamped(entries, h) == {f \in entries : HasTimestampedPubRand(f, h)}

\* ProcessAllPowerDistUpdateEvents, with the delegations' deltas as an input,
\* and the randomness labels of RecordVotingPowerAndCache.
NewDist(old, sats, h) ==
    LET kept == [f \in FPs |-> IF Dropped(old, f) THEN 0 ELSE sats[f]]
        entries == {f \in FPs : kept[f] > 0}
    IN [sats |-> kept,
        jailed |-> {f \in entries : FlaggedJailed(old, f)},
        stamped |-> Stamped(entries, h),
        active |-> {}]

\* Mutant: a re-activated provider keeps its old start height.
ActivateKeepsStart(infos, S, h) ==
    [f \in FPs |->
        IF f \in S /\ f \in tracked THEN [infos[f] EXCEPT !.until = 0]
        ELSE IF f \in S THEN [infos[f] EXCEPT !.start = h, !.until = 0] ELSE infos[f]]

\* HandleActivatedFinalityProvider for every provider of S, at height h.
Activate(infos, S, h) ==
    [f \in FPs |->
        IF f \in S THEN [infos[f] EXCEPT !.start = h, !.until = 0] ELSE infos[f]]

BeginBlock ==
    /\ phase = "commit" /\ height < MaxHeight
    /\ LET h == height + 1
           old == IF height \in cached THEN cache[height] ELSE EmptyDist
       IN \E sats \in SatsTables :
            LET dc == ApplyActiveFinalityProviders(NewDist(old, sats, h),
                                                   MaxActiveFinalityProviders)
            IN /\ cache' = [cache EXCEPT ![h] = dc]
               /\ cached' = cached \cup {h}
               /\ power' = [power EXCEPT ![h] =
                    [f \in FPs |-> IF f \in dc.active THEN dc.sats[f] ELSE NoPower]]
               /\ info' = Activate(info, dc.active \ old.active, h)
               /\ tracked' = tracked \cup (dc.active \ old.active)
    /\ height' = height + 1
    /\ phase' = "deliver"
    /\ pending' = [f \in FPs |-> "NONE"]
    /\ UNCHANGED <<lastFinalizedEpoch, slashed, jailed, commits, voteVars,
                   blockVars, bitmap, jailedAt>>

-----------------------------------------------------------------------------
\* Finality votes (msg_server.go)

ShouldAcceptSigForHeight(h) ==
    ~(h \in finalized /\ lastFinalizedEpoch >= GetEpochByHeight(h))

\* SlashFinalityProvider of x/btcstaking.
Slash(f) ==
    /\ slashed' = slashed \cup {f}
    /\ pending' = [pending EXCEPT ![f] = "SLASHED"]
    /\ UNCHANGED jailed

\* The checks of AddFinalitySig that do not depend on the voted app hash. The
\* registered key and the EOTS signature are taken as verified.
MayVote(f, h) ==
    /\ phase = "deliver"
    /\ h >= FinalityActivationHeight
    /\ h \in indexed
    /\ ShouldAcceptSigForHeight(h)
    /\ f \notin DeletedFPs /\ f \notin slashed /\ f \notin jailed
    /\ power[h][f] \notin {0, NoPower}
    /\ HasTimestampedPubRand(f, h)

\* Mutant: the stored canonical signature is left out.
ForkEvidenceAlone(f, h, hash) == {hash}

\* The signatures in the evidence that a vote for a fork leaves.
ForkEvidence(f, h, hash) == {hash} \cup (IF f \in sigs[h] THEN {Canonical} ELSE {})

\* A vote for another app hash than the indexed one becomes evidence, which
\* replaces the evidence of that height; with a stored vote it slashes.
VoteForFork(f, h, hash) ==
    /\ MayVote(f, h)
    /\ LET voted == f \in sigs[h]
       IN /\ evidence' = [evidence EXCEPT ![h][f] = ForkEvidence(f, h, hash)]
          /\ IF voted THEN Slash(f) ELSE UNCHANGED registryVars
    /\ votes' = [votes EXCEPT ![h][f] = @ \cup {hash}]
    /\ UNCHANGED <<height, phase, lastFinalizedEpoch, commits, powerVars, sigs,
                   highestVoted, refundable, blockVars, livenessVars>>

\* A vote for the indexed app hash is stored; with evidence of the same height
\* it completes the evidence and slashes, otherwise its fee is refunded.
VoteForCanonical(f, h) ==
    /\ MayVote(f, h)
    /\ f \notin sigs[h]
    /\ sigs' = [sigs EXCEPT ![h] = @ \cup {f}]
    /\ highestVoted' = [highestVoted EXCEPT ![f] = IF @ < h THEN h ELSE @]
    /\ IF evidence[h][f] # {}
       THEN /\ evidence' = [evidence EXCEPT ![h][f] = @ \cup {Canonical}]
            /\ Slash(f)
            /\ UNCHANGED refundable
       ELSE /\ refundable' = [refundable EXCEPT ![h] = @ \cup {f}]
            /\ UNCHANGED <<evidence, registryVars>>
    /\ votes' = [votes EXCEPT ![h][f] = @ \cup {Canonical}]
    /\ UNCHANGED <<height, phase, lastFinalizedEpoch, commits, powerVars,
                   blockVars, livenessVars>>

AddFinalitySig(f, h) ==
    \/ \E hash \in ForkHashes : VoteForFork(f, h, hash)
    \/ VoteForCanonical(f, h)

-----------------------------------------------------------------------------
\* Jailing

\* The jail period is over when JailedUntil is before the block time.
UnjailFinalityProvider(f) ==
    /\ phase = "deliver"
    /\ f \in jailed /\ f \in tracked /\ f \notin slashed
    /\ info[f].until < height
    /\ jailed' = jailed \ {f}
    /\ pending' = [pending EXCEPT ![f] = "UNJAILED"]
    /\ UNCHANGED <<height, phase, lastFinalizedEpoch, slashed, commits, powerVars,
                   voteVars, blockVars, livenessVars>>

\* JailFinalityProvider for every provider of S, the reset of its signing info
\* in infos, and of its bitmap.
Jail(S, infos) ==
    /\ jailed' = jailed \cup S
    /\ pending' = [f \in FPs |-> IF f \in S THEN "JAILED" ELSE pending[f]]
    /\ info' = [f \in FPs |->
         IF f \in S
         THEN [start |-> infos[f].start, missed |-> 0, until |-> height + JailDuration]
         ELSE infos[f]]
    /\ jailedAt' = [f \in FPs |-> IF f \in S THEN height ELSE jailedAt[f]]
    /\ UNCHANGED slashed

\* HandleResumeFinalityProposal (gov.go): the providers of list are jailed, and
\* from the halting height on they lose their power and their place in the
\* active set. Providers that move up get signing info, but no voting power.
ResumedDist(d, list) ==
    ApplyActiveFinalityProviders(
        [d EXCEPT !.jailed = @ \cup (list \cap Entries(d))], Cardinality(d.active))

\* Mutant: providers that move up get no signing info.
MovedUpForgotten(list, range) == {}

MovedUp(list, range) ==
    UNION {ResumedDist(cache[h], list).active \ cache[h].active : h \in range}

ResumeFinalityProposal(list, halting) ==
    /\ phase \in {"deliver", "gov"}
    /\ ResumeOnlyHalted => halting >= nextFinalize
    /\ halting >= FinalityActivationHeight
    /\ halting <= height
    /\ list \cap sigs[halting] = {}
    /\ halting..height \subseteq cached
    /\ LET toJail == list \ (slashed \cup jailed)
           range == halting..height
           movedUp == MovedUp(list, range)
       IN /\ toJail \subseteq tracked
          /\ Jail(toJail, Activate(info, movedUp, height))
          /\ tracked' = tracked \cup movedUp
          /\ bitmap' = [f \in FPs |-> IF f \in toJail THEN {} ELSE bitmap[f]]
          /\ cache' = [h \in Heights |->
               IF h \in range THEN ResumedDist(cache[h], list) ELSE cache[h]]
          /\ power' = [h \in Heights |-> [f \in FPs |->
               IF h \in range /\ f \in list \cap Entries(cache[h]) THEN 0 ELSE power[h][f]]]
    /\ phase' = "gov"
    /\ UNCHANGED <<height, lastFinalizedEpoch, commits, cached, voteVars, blockVars>>

-----------------------------------------------------------------------------
\* EndBlock (abci.go)

PoweredHeights == {h \in Heights : HasTable(power[h])}
BTCStakingActivatedHeight == Min(PoweredHeights)

IsFinalityActive == height >= FinalityActivationHeight /\ PoweredHeights # {}

\* TallyBlocks (tallying.go): from the first height that is not settled, up to
\* the first one that has a table and no quorum.
TallyStart == Max({nextFinalize, BTCStakingActivatedHeight})
TallyEnd(start) == Min({start + MaxFinalizedRewardedBlocksPerEndBlock - 1, height})
\* Mutant: exactly two thirds are enough.
LacksQuorumInclusive(h) ==
    /\ HasTable(power[h])
    /\ ~(3 * PowerOf(power[h], FPs \cap sigs[h]) >= 2 * PowerOf(power[h], FPs))

LacksQuorum(h) == HasTable(power[h]) /\ ~tally(power[h], sigs[h])
TallyStop(start) ==
    LET end == TallyEnd(start)
    IN Min({h \in start..end : LacksQuorum(h)} \cup {end + 1})

IndexBlock == indexed \cup {height}
\* Mutant: tallying goes on after a block without a quorum.
FinalizeBlocksOutOfOrder(start, stop) ==
    finalized \cup {h \in start..height : HasTable(power[h]) /\ ~LacksQuorum(h)}

\* Mutant: the last block of the range is left out.
FinalizeBlocksButLast(start, stop) ==
    finalized \cup {h \in start..(stop - 2) : HasTable(power[h])}

FinalizeBlocks(start, stop) == finalized \cup {h \in start..(stop - 1) : HasTable(power[h])}

TallyPanics(start, stop) ==
    \E h \in start..Min({stop, TallyEnd(start)}) : h \notin IndexBlock \/ h \in finalized

\* HandleLiveness (liveness.go) examines the height whose votes are now late.
HeightToExamine == height - FinalitySigTimeout

Examined ==
    IF HeightToExamine \in Heights
    THEN {f \in FPs : /\ power[HeightToExamine][f] # NoPower
                      /\ f \notin slashed /\ f \notin jailed}
    ELSE {}

\* UpdateSigningInfo
Missed(f) == f \notin sigs[HeightToExamine]
Counted(f) == info[f].start <= HeightToExamine
\* Mutant: the index does not wrap around.
WindowIndexUnbounded(f) == HeightToExamine - info[f].start

WindowIndex(f) == (HeightToExamine - info[f].start) % SignedBlocksWindow

UpdatedBitmap(f) ==
    IF ~Counted(f) THEN bitmap[f]
    ELSE IF Missed(f) THEN bitmap[f] \cup {WindowIndex(f)}
    ELSE bitmap[f] \ {WindowIndex(f)}

UpdatedMissed(f) ==
    LET was == WindowIndex(f) \in bitmap[f]
    IN CASE Counted(f) /\ Missed(f) /\ ~was -> info[f].missed + 1
         [] Counted(f) /\ ~Missed(f) /\ was -> info[f].missed - 1
         [] OTHER -> info[f].missed

IsSluggish(f) ==
    /\ HeightToExamine > info[f].start + SignedBlocksWindow
    /\ UpdatedMissed(f) > SignedBlocksWindow - MinSignedPerWindow

Sluggish == {f \in Examined : IsSluggish(f)}

HandleLiveness ==
    LET examined == Examined
        sluggish == Sluggish
    IN /\ Jail(sluggish, [f \in FPs |->
            IF f \in examined THEN [info[f] EXCEPT !.missed = UpdatedMissed(f)] ELSE info[f]])
       /\ bitmap' = [f \in FPs |->
            IF f \in sluggish THEN {} ELSE IF f \in examined THEN UpdatedBitmap(f) ELSE bitmap[f]]

LivenessPanics == ~(Examined \subseteq tracked)

\* HandleRewarding (rewarding.go), where fin are the blocks finalized so far.
RewardStart == IF nextReward = 0 THEN BTCStakingActivatedHeight ELSE nextReward
\* Mutant: one block too early.
RewardEndEarly(start) ==
    Min({start + MaxFinalizedRewardedBlocksPerEndBlock - 1, HeightToExamine - 1})

RewardEnd(start) == Min({start + MaxFinalizedRewardedBlocksPerEndBlock - 1, HeightToExamine})
BlocksToReward(start, fin) == {h \in start..RewardEnd(start) : h \in fin}

HandleRewarding(fin) ==
    LET blocks == BlocksToReward(RewardStart, fin)
    IN /\ nextReward' = IF blocks = {} THEN nextReward ELSE Max(blocks) + 1
       /\ rewarded' = [h \in Heights |-> rewarded[h] + (IF h \in blocks THEN 1 ELSE 0)]
       /\ cached' = cached \ blocks

RewardingPanics(fin) ==
    LET start == RewardStart
    IN \/ ~(start..RewardEnd(start) \subseteq IndexBlock)
       \/ ~(BlocksToReward(start, fin) \subseteq cached)

EndBlockPanics ==
    LET start == TallyStart
        stop == TallyStop(start)
    IN \/ TallyPanics(start, stop)
       \/ LivenessPanics
       \/ RewardingPanics(FinalizeBlocks(start, stop))

\* The BTC checkpointing modules, which end the block first, may finalize any
\* earlier epochs.
EndBlock ==
    /\ phase \in {"deliver", "gov"}
    /\ IF IsFinalityActive
       THEN LET start == TallyStart
                stop == TallyStop(start)
                fin == FinalizeBlocks(start, stop)
            IN /\ ~EndBlockPanics
               /\ indexed' = IndexBlock
               /\ finalized' = fin
               /\ nextFinalize' = IF stop > start THEN stop ELSE nextFinalize
               /\ HandleLiveness
               /\ HandleRewarding(fin)
       ELSE UNCHANGED <<blockVars, registryVars, cached, info, bitmap, jailedAt>>
    /\ lastFinalizedEpoch' \in lastFinalizedEpoch..(GetEpochByHeight(height) - 1)
    /\ phase' = "commit"
    /\ UNCHANGED <<height, commits, cache, power, voteVars, tracked>>

\* The model stops after the block at MaxHeight.
Horizon == phase = "commit" /\ height = MaxHeight /\ UNCHANGED vars

Next ==
    \/ BeginBlock
    \/ \E f \in FPs, start \in Heights, num \in PubRandNums : CommitPubRandList(f, start, num)
    \/ \E f \in FPs, h \in Heights : AddFinalitySig(f, h)
    \/ \E f \in FPs : UnjailFinalityProvider(f)
    \/ \E list \in ResumeLists, halting \in Heights : ResumeFinalityProposal(list, halting)
    \/ EndBlock
    \/ Horizon

Spec == Init /\ [][Next]_vars

\* Blocks keep being produced.
FairSpec == Spec /\ WF_<<height, phase>>(BeginBlock \/ EndBlock)

-----------------------------------------------------------------------------
\* Properties

\* A provider whose accepted votes at one height are for the indexed block and
\* for another one is slashed, whichever vote came first (AddFinalitySig).
EquivocationSlashed ==
    \A h \in Heights, f \in FPs :
        f \in sigs[h] /\ votes[h][f] # {Canonical} => f \in slashed

\* Every slashed provider has stored evidence that holds both signatures, so
\* its key can be extracted; later votes never overwrite it (SetEvidence).
SlashedHasEvidence ==
    \A f \in slashed : \E h \in Heights :
        Canonical \in evidence[h][f] /\ evidence[h][f] # {Canonical}

\* Equivocation is always punished, and nobody is punished without the evidence
\* that makes it accountable (AddFinalitySig, SetEvidence).
Accountable == EquivocationSlashed /\ SlashedHasEvidence

\* Between the activated height and the next height to finalize a block is
\* finalized exactly if it has a voting power table, and no block above is
\* finalized: what the comment of TallyBlocks promises.
SettledPrefix ==
    \A h \in Heights :
        /\ h \in finalized => h < nextFinalize /\ HasTable(power[h])
        /\ h < nextFinalize /\ HasTable(power[h]) => h \in finalized

\* A finalized block has votes of more than two thirds of the power that the
\* voting power table has at its height, now and not only when it was tallied.
FinalizedHasQuorum == \A h \in finalized : tally(power[h], sigs[h])

\* None of the conditions on which EndBlocker panics and halts the chain ever
\* arises: a block to tally or reward that is not indexed or already finalized,
\* an active provider without signing info, a reward without its cache.
EndBlockNeverPanics ==
    phase # "commit" /\ IsFinalityActive => ~EndBlockPanics

\* Whoever has voting power at a height is active in its distribution cache,
\* has timestamped randomness for it, and the height is one for which finality is
\* activated. RecordVotingPowerAndCache decides this once; AddFinalitySig and
\* rewarding rely on it later.
PoweredMayVote ==
    \A h \in Heights, f \in FPs : power[h][f] > 0 =>
        /\ h \in cached => f \in cache[h].active
        /\ HasTimestampedPubRand(f, h)
        /\ h >= FinalityActivationHeight

\* A block is rewarded at most once and only if it is finalized; at the end of a
\* block every finalized block whose votes are late has been rewarded ("we need
\* ensure every finalized block will be processed").
RewardedOnce ==
    \A h \in Heights :
        /\ rewarded[h] <= 1
        /\ rewarded[h] = 1 => h \in finalized
        /\ phase = "commit" /\ h \in finalized /\ h <= HeightToExamine => rewarded[h] = 1

\* A sluggish provider is jailed for votes it owed after it was last unjailed
\* ("won't be immediately jailed after unjailing").
JailedForCurrentPeriod ==
    [][phase' = "commit" =>
        \A f \in jailed' \ jailed : jailedAt[f] > 0 => info[f].start > jailedAt[f]]_vars

\* A height whose voters form a quorum, with no height before it that lacks
\* one, becomes finalized, from the height on at which finality is activated.
QuorumFinalizes ==
    \A h \in {g \in Heights : g >= FinalityActivationHeight} :
        (/\ HasTable(power[h]) /\ h \in indexed
         /\ \A g \in InitHeight + 1..h : ~LacksQuorum(g)) ~> (h \in finalized)
=============================================================================
