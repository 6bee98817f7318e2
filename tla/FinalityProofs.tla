--------------------------- MODULE FinalityProofs ---------------------------
(***************************************************************************)
(* Machine-checked proofs about module Finality, for every value of its    *)
(* constants.                                                              *)
(***************************************************************************)
EXTENDS Finality, Extrema, TLAPS

-----------------------------------------------------------------------------
\* Types of the operators

\* The index into a bitmap stays inside the window.
LEMMA ModInWindow == \A a \in Int, b \in Nat \ {0} : a % b \in 0..(b - 1)
  OBVIOUS

\* CalculateEpochNumber gives a natural number, and at least 1 above genesis.
LEMMA EpochType ==
    ASSUME NEW h \in Nat
    PROVE  GetEpochByHeight(h) \in Nat /\ (h > 0 => GetEpochByHeight(h) - 1 \in Nat)
<1>1. \A a \in Nat, b \in Nat \ {0} : a \div b \in Nat
  OBVIOUS
<1>2. h # 0 => (h - 1) \div EpochInterval \in Nat
  BY <1>1, ParamsAssumption
<1> QED BY <1>2 DEF GetEpochByHeight

\* Choosing the active providers keeps a distribution cache well formed.
LEMMA ApplyType ==
    ASSUME NEW d \in Dist, NEW n
    PROVE  /\ ApplyActiveFinalityProviders(d, n) \in Dist
           /\ ApplyActiveFinalityProviders(d, n).active \subseteq Entries(d) \ d.jailed
           /\ ApplyActiveFinalityProviders(d, n).sats = d.sats
           /\ ApplyActiveFinalityProviders(d, n).jailed = d.jailed
  BY DEF ApplyActiveFinalityProviders, Dist, TopRanked, Eligible, Entries

\* The cache that the power events of a block leave is well formed.
LEMMA NewDistType ==
    ASSUME NEW old \in Dist, NEW sats \in [FPs -> Nat], NEW h
    PROVE  NewDist(old, sats, h) \in Dist
<1> DEFINE kept == [f \in FPs |-> IF Dropped(old, f) THEN 0 ELSE sats[f]]
<1>1. kept \in [FPs -> Nat]
  OBVIOUS
<1> QED BY <1>1 DEF NewDist, Dist, Stamped

\* Resetting the start and the jail period of signing infos keeps their type.
LEMMA ActivateType ==
    ASSUME NEW infos \in [FPs -> SigningInfo], NEW S, NEW h \in Nat
    PROVE  Activate(infos, S, h) \in [FPs -> SigningInfo]
  BY DEF Activate, SigningInfo

\* The cache a resume proposal leaves at a height is well formed.
LEMMA ResumedDistType ==
    ASSUME NEW d \in Dist, NEW list \in SUBSET FPs
    PROVE  /\ ResumedDist(d, list) \in Dist
           /\ ResumedDist(d, list).sats = d.sats
           /\ ResumedDist(d, list).jailed = d.jailed \cup (list \cap Entries(d))
           /\ ResumedDist(d, list).active \subseteq FPs
<1> DEFINE e == [d EXCEPT !.jailed = @ \cup (list \cap Entries(d))]
<1>1. e \in Dist /\ e.sats = d.sats /\ e.jailed = d.jailed \cup (list \cap Entries(d))
  BY DEF Dist
<1>2. ApplyActiveFinalityProviders(e, Cardinality(d.active)) \in Dist
      /\ ApplyActiveFinalityProviders(e, Cardinality(d.active)).sats = e.sats
      /\ ApplyActiveFinalityProviders(e, Cardinality(d.active)).jailed = e.jailed
  BY <1>1, ApplyType
<1> QED BY <1>1, <1>2 DEF ResumedDist, Dist

-----------------------------------------------------------------------------
\* Type correctness

\* A block that is being executed is above the height the model starts from.
Started == phase # "commit" => height > InitHeight

\* What the type invariant says of the counters.
LEMMA CounterTypes ==
    ASSUME TypeOK
    PROVE  /\ height \in Nat /\ InitHeight \in Nat /\ InitHeight <= height
           /\ nextFinalize \in Nat /\ nextReward \in Nat
<1>1. height \in InitHeight..MaxHeight /\ nextFinalize \in Nat /\ nextReward \in Nat
  BY DEF TypeOK
<1>2. InitHeight \in Nat /\ MaxHeight \in Nat
  BY ParamsAssumption
<1> QED BY <1>1, <1>2

\* The height whose votes are late is an integer, possibly below the first one.
LEMMA ExaminedType ==
    ASSUME TypeOK
    PROVE  HeightToExamine \in Int /\ height + JailDuration \in Nat
<1>1. FinalitySigTimeout \in Nat /\ JailDuration \in Nat
  BY ParamsAssumption
<1> QED BY <1>1, CounterTypes DEF HeightToExamine

\* The initial state is well typed.
LEMMA InitType == Init => TypeOK
<1> SUFFICES ASSUME Init PROVE TypeOK
  OBVIOUS
<1>1. InitHeight \in InitHeight..MaxHeight
  BY ParamsAssumption
<1>2. lastFinalizedEpoch \in Nat
  <2>1. InitHeight + 1 \in Nat /\ InitHeight + 1 > 0
    BY ParamsAssumption
  <2> QED BY <2>1, EpochType DEF Init
<1>3. EmptyDist \in Dist /\ EmptyTable \in Table
  BY DEF EmptyDist, Dist, EmptyTable, Table
<1>4. info \in [FPs -> SigningInfo]
  BY DEF Init, SigningInfo
<1> QED BY <1>1, <1>2, <1>3, <1>4, ParamsAssumption DEF Init, TypeOK

\* CommitPubRandList appends a well-typed commit and changes nothing else.
LEMMA CommitType ==
    ASSUME TypeOK, NEW f \in FPs, NEW start \in Heights, NEW num \in PubRandNums,
           CommitPubRandList(f, start, num)
    PROVE  TypeOK'
<1>1. height \in Nat /\ start \in Nat /\ num \in Nat
  BY ParamsAssumption DEF TypeOK, Heights
<1>2. [start |-> start, num |-> num, epoch |-> GetEpochByHeight(height)] \in Commit
  BY <1>1, EpochType DEF Commit
<1>3. commits' \in [FPs -> Seq(Commit)]
  BY <1>2 DEF TypeOK, CommitPubRandList
<1> QED BY <1>3 DEF TypeOK, CommitPubRandList, registryVars, powerVars, voteVars,
                    blockVars, livenessVars

\* UpdatePowerDist writes a well-typed cache, table and signing infos.
LEMMA BeginBlockType ==
    ASSUME TypeOK, BeginBlock
    PROVE  TypeOK'
<1> DEFINE h == height + 1
           old == IF height \in cached THEN cache[height] ELSE EmptyDist
<1>1. h \in Heights /\ h \in Nat /\ height' \in InitHeight..MaxHeight
  <2>1. height' = height + 1 /\ height < MaxHeight
    BY DEF BeginBlock
  <2>2. MaxHeight \in Nat
    BY ParamsAssumption
  <2> QED BY <2>1, <2>2, CounterTypes DEF Heights
<1>2. old \in Dist
  BY DEF TypeOK, EmptyDist, Dist
<1>3. PICK sats \in SatsTables :
        LET dc == ApplyActiveFinalityProviders(NewDist(old, sats, h),
                                               MaxActiveFinalityProviders)
        IN /\ cache' = [cache EXCEPT ![h] = dc]
           /\ cached' = cached \cup {h}
           /\ power' = [power EXCEPT ![h] =
                [f \in FPs |-> IF f \in dc.active THEN dc.sats[f] ELSE NoPower]]
           /\ info' = Activate(info, dc.active \ old.active, h)
           /\ tracked' = tracked \cup (dc.active \ old.active)
  BY DEF BeginBlock
<1> DEFINE dc == ApplyActiveFinalityProviders(NewDist(old, sats, h),
                                              MaxActiveFinalityProviders)
<1>4. dc \in Dist
  BY <1>2, <1>3, ParamsAssumption, NewDistType, ApplyType
<1>5. info' \in [FPs -> SigningInfo]
  BY <1>1, <1>3, ActivateType DEF TypeOK
<1> HIDE DEF old, dc
<1>6. dc.sats \in [FPs -> Nat] /\ dc.active \subseteq FPs
  BY <1>4 DEF Dist
<1>7. [f \in FPs |-> IF f \in dc.active THEN dc.sats[f] ELSE NoPower] \in Table
  BY <1>6 DEF Table
<1>8. power' \in [Heights -> Table]
  BY <1>1, <1>3, <1>7 DEF TypeOK, dc
<1>9. cache' \in [Heights -> Dist] /\ cached' \subseteq Heights /\ tracked' \subseteq FPs
  BY <1>1, <1>3, <1>4, <1>6 DEF TypeOK, dc
<1>10. pending' \in [FPs -> {"NONE", "JAILED", "UNJAILED", "SLASHED"}]
  BY DEF BeginBlock
<1> QED BY <1>1, <1>5, <1>8, <1>9, <1>10 DEF TypeOK, BeginBlock, voteVars, blockVars

\* The registry flags that a slashing leaves.
LEMMA SlashType ==
    ASSUME TypeOK, NEW f \in FPs, Slash(f)
    PROVE  /\ slashed' \subseteq FPs /\ jailed' \subseteq FPs
           /\ pending' \in [FPs -> {"NONE", "JAILED", "UNJAILED", "SLASHED"}]
  BY DEF TypeOK, Slash

\* Both kinds of votes keep the vote, evidence and registry stores well typed.
LEMMA VoteType ==
    ASSUME TypeOK, NEW f \in FPs, NEW h \in Heights, AddFinalitySig(f, h)
    PROVE  TypeOK'
<1>1. h \in Nat
  BY ParamsAssumption DEF Heights
<1>2. ASSUME NEW hash \in ForkHashes, VoteForFork(f, h, hash)
      PROVE  TypeOK'
  <2>1. ForkEvidence(f, h, hash) \subseteq Hashes
    BY <1>2 DEF ForkEvidence, Hashes
  <2>2. evidence' \in [Heights -> [FPs -> SUBSET Hashes]]
    BY <1>2, <2>1 DEF VoteForFork, TypeOK
  <2>3. votes' \in [Heights -> [FPs -> SUBSET Hashes]]
    BY <1>2 DEF VoteForFork, TypeOK, Hashes
  <2>4. /\ slashed' \subseteq FPs /\ jailed' \subseteq FPs
        /\ pending' \in [FPs -> {"NONE", "JAILED", "UNJAILED", "SLASHED"}]
    <3>1. CASE Slash(f)
      BY <3>1, SlashType
    <3>2. CASE UNCHANGED registryVars
      BY <3>2 DEF TypeOK, registryVars
    <3> QED BY <1>2, <3>1, <3>2 DEF VoteForFork
  <2> QED BY <1>2, <2>2, <2>3, <2>4
          DEF VoteForFork, TypeOK, powerVars, blockVars, livenessVars
<1>3. ASSUME VoteForCanonical(f, h)
      PROVE  TypeOK'
  <2>1. evidence' \in [Heights -> [FPs -> SUBSET Hashes]]
    <3>1. CASE evidence' = evidence
      BY <3>1 DEF TypeOK
    <3>2. CASE evidence' = [evidence EXCEPT ![h][f] = @ \cup {Canonical}]
      BY <3>2 DEF TypeOK, Hashes
    <3> QED BY <1>3, <3>1, <3>2 DEF VoteForCanonical
  <2>2. votes' \in [Heights -> [FPs -> SUBSET Hashes]]
    BY <1>3 DEF VoteForCanonical, TypeOK, Hashes
  <2>3. /\ slashed' \subseteq FPs /\ jailed' \subseteq FPs
        /\ pending' \in [FPs -> {"NONE", "JAILED", "UNJAILED", "SLASHED"}]
    <3>1. CASE Slash(f)
      BY <3>1, SlashType
    <3>2. CASE UNCHANGED registryVars
      BY <3>2 DEF TypeOK, registryVars
    <3> QED BY <1>3, <3>1, <3>2 DEF VoteForCanonical
  <2>4. highestVoted' \in [FPs -> Nat]
    BY <1>1, <1>3 DEF VoteForCanonical, TypeOK
  <2>5. sigs' \in [Heights -> SUBSET FPs]
    BY <1>3 DEF VoteForCanonical, TypeOK
  <2>6. refundable' \in [Heights -> SUBSET FPs]
    <3>1. CASE refundable' = refundable
      BY <3>1 DEF TypeOK
    <3>2. CASE refundable' = [refundable EXCEPT ![h] = @ \cup {f}]
      BY <3>2 DEF TypeOK
    <3> QED BY <1>3, <3>1, <3>2 DEF VoteForCanonical
  <2> QED BY <1>3, <2>1, <2>2, <2>3, <2>4, <2>5, <2>6
          DEF VoteForCanonical, TypeOK, powerVars, blockVars, livenessVars
<1> QED BY <1>2, <1>3 DEF AddFinalitySig

\* Unjailing changes the registry and the pending event only.
LEMMA UnjailType ==
    ASSUME TypeOK, NEW f \in FPs, UnjailFinalityProvider(f)
    PROVE  TypeOK'
<1>1. pending' \in [FPs -> {"NONE", "JAILED", "UNJAILED", "SLASHED"}]
  BY DEF TypeOK, UnjailFinalityProvider
<1>2. jailed' \subseteq FPs
  BY DEF TypeOK, UnjailFinalityProvider
<1> QED BY <1>1, <1>2 DEF TypeOK, UnjailFinalityProvider, powerVars, voteVars, blockVars,
                          livenessVars

\* What Jail leaves, for any well-typed signing infos.
LEMMA JailType ==
    ASSUME TypeOK, NEW S \in SUBSET FPs, NEW infos \in [FPs -> SigningInfo],
           Jail(S, infos)
    PROVE  /\ slashed' \subseteq FPs /\ jailed' \subseteq FPs
           /\ pending' \in [FPs -> {"NONE", "JAILED", "UNJAILED", "SLASHED"}]
           /\ info' \in [FPs -> SigningInfo]
           /\ jailedAt' \in [FPs -> Nat]
<1>1. height \in Nat /\ height + JailDuration \in Nat
  BY CounterTypes, ExaminedType
<1>2. info' \in [FPs -> SigningInfo]
  <2>1. \A f \in FPs : infos[f] \in SigningInfo /\ infos[f].start \in Nat
    BY DEF SigningInfo
  <2>2. info' = [f \in FPs |->
           IF f \in S
           THEN [start |-> infos[f].start, missed |-> 0, until |-> height + JailDuration]
           ELSE infos[f]]
    BY DEF Jail
  <2>3. \A f \in FPs :
           [start |-> infos[f].start, missed |-> 0, until |-> height + JailDuration]
             \in SigningInfo
    BY <1>1, <2>1 DEF SigningInfo
  <2> QED BY <2>1, <2>2, <2>3
<1>3. jailedAt' \in [FPs -> Nat]
  BY <1>1 DEF Jail, TypeOK
<1>4. pending' \in [FPs -> {"NONE", "JAILED", "UNJAILED", "SLASHED"}]
  <2>1. pending' = [f \in FPs |-> IF f \in S THEN "JAILED" ELSE pending[f]]
    BY DEF Jail
  <2>2. pending \in [FPs -> {"NONE", "JAILED", "UNJAILED", "SLASHED"}]
    BY DEF TypeOK
  <2> QED BY <2>1, <2>2
<1> QED BY <1>2, <1>3, <1>4 DEF Jail, TypeOK

\* A resume proposal rewrites caches and tables of past heights within their types.
LEMMA ResumeType ==
    ASSUME TypeOK, NEW list \in ResumeLists, NEW halting \in Heights,
           ResumeFinalityProposal(list, halting)
    PROVE  TypeOK'
<1> DEFINE toJail == list \ (slashed \cup jailed)
           range == halting..height
           movedUp == MovedUp(list, range)
<1>1. list \in SUBSET FPs /\ toJail \in SUBSET FPs
  BY ParamsAssumption
<1>2. height \in Nat /\ halting \in Nat
  BY ParamsAssumption DEF TypeOK, Heights
<1>3. range \subseteq Heights
  BY <1>2, ParamsAssumption DEF TypeOK, Heights
<1>4. \A h \in Heights : ResumedDist(cache[h], list) \in Dist
                         /\ ResumedDist(cache[h], list).active \subseteq FPs
  BY <1>1, ResumedDistType DEF TypeOK
<1>5. movedUp \subseteq FPs
  BY <1>3, <1>4 DEF MovedUp
<1> HIDE DEF movedUp, range, toJail
<1>6. Activate(info, movedUp, height) \in [FPs -> SigningInfo]
  BY <1>2, ActivateType DEF TypeOK
<1>7. /\ Jail(toJail, Activate(info, movedUp, height))
      /\ tracked' = tracked \cup movedUp
      /\ bitmap' = [f \in FPs |-> IF f \in toJail THEN {} ELSE bitmap[f]]
      /\ cache' = [h \in Heights |->
           IF h \in range THEN ResumedDist(cache[h], list) ELSE cache[h]]
      /\ power' = [h \in Heights |-> [f \in FPs |->
           IF h \in range /\ f \in list \cap Entries(cache[h]) THEN 0 ELSE power[h][f]]]
  BY DEF ResumeFinalityProposal, toJail, range, movedUp
<1>8. /\ slashed' \subseteq FPs /\ jailed' \subseteq FPs
      /\ pending' \in [FPs -> {"NONE", "JAILED", "UNJAILED", "SLASHED"}]
      /\ info' \in [FPs -> SigningInfo]
      /\ jailedAt' \in [FPs -> Nat]
  BY <1>1, <1>6, <1>7, JailType
<1>9. tracked' \subseteq FPs /\ bitmap' \in [FPs -> SUBSET (0..SignedBlocksWindow - 1)]
  BY <1>5, <1>7 DEF TypeOK
<1>10. cache' \in [Heights -> Dist]
  BY <1>4, <1>7 DEF TypeOK
<1>11. power' \in [Heights -> Table]
  BY <1>7 DEF TypeOK, Table
<1> QED BY <1>8, <1>9, <1>10, <1>11 DEF TypeOK, ResumeFinalityProposal, voteVars, blockVars

-----------------------------------------------------------------------------
\* EndBlock

\* The height at which BTC staking was activated is the least one with a table.
LEMMA ActivatedHeight ==
    ASSUME PoweredHeights # {}
    PROVE  /\ BTCStakingActivatedHeight \in Heights
           /\ \A h \in PoweredHeights : BTCStakingActivatedHeight <= h
<1>1. PoweredHeights \in SUBSET Int /\ \A x \in PoweredHeights : 0 <= x
  BY ParamsAssumption DEF PoweredHeights, Heights
<1>2. Min(PoweredHeights) \in PoweredHeights
      /\ \A y \in PoweredHeights : Min(PoweredHeights) <= y
  BY <1>1, MinOfBounded
<1> QED BY <1>2 DEF BTCStakingActivatedHeight, PoweredHeights

\* Tallying starts at the larger of the activated height and the next height to
\* finalize, and stops at most one above the current height.
LEMMA TallyBounds ==
    ASSUME TypeOK, PoweredHeights # {}
    PROVE  /\ TallyStart \in Nat
           /\ TallyStart >= nextFinalize
           /\ TallyStart >= BTCStakingActivatedHeight
           /\ TallyStart \in {nextFinalize, BTCStakingActivatedHeight}
           /\ TallyEnd(TallyStart) \in Int /\ TallyEnd(TallyStart) <= height
           /\ TallyStop(TallyStart) \in Int
           /\ TallyStop(TallyStart) <= TallyEnd(TallyStart) + 1
<1>1. BTCStakingActivatedHeight \in Nat /\ nextFinalize \in Nat /\ height \in Nat
  BY ActivatedHeight, ParamsAssumption DEF Heights, TypeOK
<1>2. TallyStart \in {nextFinalize, BTCStakingActivatedHeight}
      /\ TallyStart >= nextFinalize /\ TallyStart >= BTCStakingActivatedHeight
  <2> DEFINE S == {nextFinalize, BTCStakingActivatedHeight}
             b == nextFinalize + BTCStakingActivatedHeight
  <2>1. S \in SUBSET Int /\ S # {} /\ b \in Int /\ \A x \in S : x <= b
    BY <1>1
  <2>2. Max(S) \in S /\ \A y \in S : y <= Max(S)
    <3> HIDE DEF S, b
    <3> QED BY <2>1, MaxOfBounded
  <2> QED BY <1>1, <2>2 DEF TallyStart
<1>3. TallyStart \in Nat
  BY <1>1, <1>2
<1>4. TallyEnd(TallyStart) \in Int /\ TallyEnd(TallyStart) <= height
  <2> DEFINE S == {TallyStart + MaxFinalizedRewardedBlocksPerEndBlock - 1, height}
  <2>1. S \in SUBSET Int /\ S # {} /\ 0 \in Int /\ \A x \in S : 0 <= x
    BY <1>1, <1>3, ParamsAssumption
  <2>2. Min(S) \in S /\ \A y \in S : Min(S) <= y
    <3> HIDE DEF S
    <3> QED BY <2>1, MinOfBounded
  <2> QED BY <1>1, <2>1, <2>2 DEF TallyEnd
<1>5. TallyStop(TallyStart) \in Int /\ TallyStop(TallyStart) <= TallyEnd(TallyStart) + 1
  <2> DEFINE end == TallyEnd(TallyStart)
             S == {h \in TallyStart..end : LacksQuorum(h)} \cup {end + 1}
             b == IF end + 1 < TallyStart THEN end + 1 ELSE TallyStart
  <2> HIDE DEF end
  <2>1. S \in SUBSET Int /\ S # {} /\ b \in Int /\ \A x \in S : b <= x
    BY <1>3, <1>4 DEF end
  <2>2. Min(S) \in S /\ \A y \in S : Min(S) <= y
    <3> HIDE DEF S, b
    <3> QED BY <2>1, MinOfBounded
  <2>3. Min(S) \in Int /\ Min(S) <= end + 1
    BY <2>1, <2>2
  <2> QED BY <2>3 DEF TallyStop, end
<1> QED BY <1>2, <1>3, <1>4, <1>5

\* HandleLiveness keeps signing infos and bitmaps well typed: the window
\* index is below SignedBlocksWindow.
LEMMA LivenessType ==
    ASSUME TypeOK, HandleLiveness
    PROVE  /\ slashed' \subseteq FPs /\ jailed' \subseteq FPs
           /\ pending' \in [FPs -> {"NONE", "JAILED", "UNJAILED", "SLASHED"}]
           /\ info' \in [FPs -> SigningInfo]
           /\ jailedAt' \in [FPs -> Nat]
           /\ bitmap' \in [FPs -> SUBSET (0..SignedBlocksWindow - 1)]
<1> DEFINE infos == [f \in FPs |->
             IF f \in Examined THEN [info[f] EXCEPT !.missed = UpdatedMissed(f)] ELSE info[f]]
<1>1. HeightToExamine \in Int
  BY ExaminedType
<1>2. \A f \in FPs : info[f] \in SigningInfo /\ info[f].start \in Nat /\ info[f].missed \in Int
  BY DEF TypeOK, SigningInfo
<1>3. \A f \in FPs : UpdatedMissed(f) \in Int
  BY <1>2 DEF UpdatedMissed
<1>4. infos \in [FPs -> SigningInfo]
  BY <1>2, <1>3 DEF SigningInfo
<1>5. \A f \in FPs : WindowIndex(f) \in 0..(SignedBlocksWindow - 1)
  <2> TAKE f \in FPs
  <2>1. HeightToExamine - info[f].start \in Int
    BY <1>1, <1>2
  <2> QED BY <2>1, ParamsAssumption, ModInWindow DEF WindowIndex
<1>6. \A f \in FPs : UpdatedBitmap(f) \in SUBSET (0..SignedBlocksWindow - 1)
  BY <1>5 DEF UpdatedBitmap, TypeOK
<1>7. /\ Jail(Sluggish, infos)
      /\ bitmap' = [f \in FPs |->
           IF f \in Sluggish THEN {} ELSE IF f \in Examined THEN UpdatedBitmap(f) ELSE bitmap[f]]
  BY DEF HandleLiveness
<1>8. Sluggish \in SUBSET FPs
  BY DEF Sluggish, Examined
<1> HIDE DEF infos
<1>9. bitmap' \in [FPs -> SUBSET (0..SignedBlocksWindow - 1)]
  BY <1>6, <1>7 DEF TypeOK
<1> QED BY <1>4, <1>7, <1>8, <1>9, JailType

\* The heights that are rewarded are natural numbers up to the examined one.
LEMMA RewardBounds ==
    ASSUME TypeOK, PoweredHeights # {}, NEW fin
    PROVE  /\ RewardStart \in Nat
           /\ RewardEnd(RewardStart) \in Int /\ RewardEnd(RewardStart) <= HeightToExamine
           /\ BlocksToReward(RewardStart, fin) \subseteq Nat
           /\ \A h \in BlocksToReward(RewardStart, fin) : h <= HeightToExamine
<1>1. RewardStart \in Nat
  <2>1. BTCStakingActivatedHeight \in Nat
    BY ActivatedHeight, CounterTypes DEF Heights
  <2> QED BY <2>1, CounterTypes DEF RewardStart
<1>2. HeightToExamine \in Int
  BY ExaminedType
<1>3. RewardEnd(RewardStart) \in Int /\ RewardEnd(RewardStart) <= HeightToExamine
  <2> DEFINE a == RewardStart + MaxFinalizedRewardedBlocksPerEndBlock - 1
             S == {a, HeightToExamine}
             b == IF a < HeightToExamine THEN a ELSE HeightToExamine
  <2>1. a \in Int
    BY <1>1, ParamsAssumption
  <2> HIDE DEF a
  <2>2. S \in SUBSET Int /\ S # {} /\ b \in Int /\ \A x \in S : b <= x
    BY <1>2, <2>1
  <2>3. Min(S) \in S /\ \A y \in S : Min(S) <= y
    <3> HIDE DEF S, b
    <3> QED BY <2>2, MinOfBounded
  <2> QED BY <1>2, <2>1, <2>3 DEF RewardEnd, a
<1> QED BY <1>1, <1>2, <1>3 DEF BlocksToReward

\* HandleRewarding keeps the next height to reward a natural number.
LEMMA RewardingType ==
    ASSUME TypeOK, PoweredHeights # {}, NEW fin, HandleRewarding(fin)
    PROVE  /\ nextReward' \in Nat /\ rewarded' \in [Heights -> Nat]
           /\ cached' \subseteq cached
<1> DEFINE blocks == BlocksToReward(RewardStart, fin)
<1>1. /\ nextReward' = IF blocks = {} THEN nextReward ELSE Max(blocks) + 1
      /\ rewarded' = [h \in Heights |-> rewarded[h] + (IF h \in blocks THEN 1 ELSE 0)]
      /\ cached' = cached \ blocks
  BY DEF HandleRewarding
<1>2. blocks \subseteq Nat /\ HeightToExamine \in Int /\ \A h \in blocks : h <= HeightToExamine
  BY RewardBounds, ExaminedType
<1> HIDE DEF blocks
<1>3. ASSUME blocks # {} PROVE Max(blocks) \in Nat
  <2>1. blocks \in SUBSET Int
    BY <1>2
  <2> QED BY <1>2, <1>3, <2>1, MaxOfBounded
<1>4. nextReward' \in Nat
  BY <1>1, <1>3 DEF TypeOK
<1>5. rewarded' \in [Heights -> Nat]
  BY <1>1 DEF TypeOK
<1> QED BY <1>1, <1>4, <1>5

\* EndBlock as a whole: tallying, liveness and rewarding keep the types.
LEMMA EndBlockType ==
    ASSUME TypeOK, Started, EndBlock
    PROVE  TypeOK'
<1>1. height \in Nat /\ height \in InitHeight..MaxHeight
  BY ParamsAssumption DEF TypeOK
<1>2. lastFinalizedEpoch' \in Nat
  BY <1>1, EpochType DEF EndBlock, TypeOK
<1>3. phase' \in {"commit", "deliver", "gov"}
  BY DEF EndBlock
<1>4. CASE IsFinalityActive
  <2> DEFINE start == TallyStart
             stop == TallyStop(start)
             fin == FinalizeBlocks(start, stop)
  <2>1. /\ ~EndBlockPanics
        /\ indexed' = IndexBlock
        /\ finalized' = fin
        /\ nextFinalize' = IF stop > start THEN stop ELSE nextFinalize
        /\ HandleLiveness
        /\ HandleRewarding(fin)
    BY <1>4 DEF EndBlock
  <2>2. PoweredHeights # {}
    BY <1>4 DEF IsFinalityActive
  <2>3. start \in Nat /\ stop \in Int /\ stop <= height + 1
    BY <1>1, <2>2, TallyBounds
  <2>4. start \in Heights \/ start > InitHeight
    BY <2>2, TallyBounds, ActivatedHeight, ParamsAssumption DEF Heights
  <2> HIDE DEF start, stop
  <2>5. indexed' \subseteq Heights
    <3>1. height \in Heights
      BY <1>1, ParamsAssumption DEF EndBlock, Started, Heights
    <3> QED BY <2>1, <3>1 DEF IndexBlock, TypeOK
  <2>6. fin \subseteq Heights
    <3>1. \A h \in start..(stop - 1) : h \in Heights
      BY <1>1, <2>3, <2>4, ParamsAssumption DEF Heights
    <3> QED BY <3>1 DEF FinalizeBlocks, TypeOK
  <2>7. nextFinalize' \in Nat
    BY <2>1, <2>3 DEF TypeOK
  <2>8. nextReward' \in Nat /\ rewarded' \in [Heights -> Nat] /\ cached' \subseteq cached
    BY <2>1, <2>2, RewardingType
  <2>9. /\ slashed' \subseteq FPs /\ jailed' \subseteq FPs
        /\ pending' \in [FPs -> {"NONE", "JAILED", "UNJAILED", "SLASHED"}]
        /\ info' \in [FPs -> SigningInfo]
        /\ jailedAt' \in [FPs -> Nat]
        /\ bitmap' \in [FPs -> SUBSET (0..SignedBlocksWindow - 1)]
    BY <2>1, LivenessType
  <2> HIDE DEF fin
  <2> QED BY <1>2, <1>3, <2>1, <2>5, <2>6, <2>7, <2>8, <2>9 DEF EndBlock, TypeOK, voteVars
<1>5. CASE ~IsFinalityActive
  BY <1>2, <1>3, <1>5 DEF EndBlock, TypeOK, blockVars, registryVars, voteVars
<1> QED BY <1>4, <1>5

\* Every step of the module, with its type lemma.
LEMMA NextType ==
    ASSUME TypeOK, Started, [Next]_vars
    PROVE  TypeOK' /\ Started'
<1>1. CASE BeginBlock
  <2>1. height' = height + 1
    BY <1>1 DEF BeginBlock
  <2> QED BY <1>1, <2>1, BeginBlockType, CounterTypes DEF Started
<1>2. ASSUME NEW f \in FPs, NEW start \in Heights, NEW num \in PubRandNums,
             CommitPubRandList(f, start, num)
      PROVE  TypeOK' /\ Started'
  BY <1>2, CommitType DEF CommitPubRandList, Started
<1>3. ASSUME NEW f \in FPs, NEW h \in Heights, AddFinalitySig(f, h)
      PROVE  TypeOK' /\ Started'
  BY <1>3, VoteType DEF AddFinalitySig, VoteForFork, VoteForCanonical, Started
<1>4. ASSUME NEW f \in FPs, UnjailFinalityProvider(f)
      PROVE  TypeOK' /\ Started'
  BY <1>4, UnjailType DEF UnjailFinalityProvider, Started
<1>5. ASSUME NEW list \in ResumeLists, NEW halting \in Heights,
             ResumeFinalityProposal(list, halting)
      PROVE  TypeOK' /\ Started'
  BY <1>5, ResumeType DEF ResumeFinalityProposal, Started
<1>6. CASE EndBlock
  BY <1>6, EndBlockType DEF EndBlock, Started
<1>7. CASE UNCHANGED vars
  BY <1>7 DEF vars, registryVars, powerVars, voteVars, blockVars, livenessVars,
              TypeOK, Started
<1> QED BY <1>1, <1>2, <1>3, <1>4, <1>5, <1>6, <1>7 DEF Next, Horizon

\* Every reachable state of the finality module is well typed: in particular a
\* bitmap never leaves its window (WindowIndex of UpdateSigningInfo), and only
\* blocks of the chain are indexed and finalized.
THEOREM TypeCorrect == Spec => [](TypeOK /\ Started)
<1>1. Init => TypeOK /\ Started
  BY InitType DEF Init, Started
<1>2. TypeOK /\ Started /\ [Next]_vars => (TypeOK /\ Started)'
  BY NextType
<1> QED BY <1>1, <1>2, PTL DEF Spec

-----------------------------------------------------------------------------
\* Equivocation

\* Only votes touch the vote store, the evidence and the set of the slashed.
LEMMA OnlyVotesSlash ==
    ASSUME [Next]_vars
    PROVE  \/ UNCHANGED <<sigs, evidence, votes, slashed>>
           \/ \E f \in FPs, h \in Heights : AddFinalitySig(f, h)
<1>1. ASSUME EndBlock PROVE UNCHANGED <<sigs, evidence, votes, slashed>>
  <2>1. CASE IsFinalityActive
    BY <1>1, <2>1 DEF EndBlock, HandleLiveness, Jail, voteVars
  <2>2. CASE ~IsFinalityActive
    BY <1>1, <2>2 DEF EndBlock, registryVars, voteVars
  <2> QED BY <2>1, <2>2
<1>2. ASSUME NEW list, NEW halting, ResumeFinalityProposal(list, halting)
      PROVE  UNCHANGED <<sigs, evidence, votes, slashed>>
  BY <1>2 DEF ResumeFinalityProposal, Jail, voteVars
<1>3. ASSUME BeginBlock PROVE UNCHANGED <<sigs, evidence, votes, slashed>>
  BY <1>3 DEF BeginBlock, voteVars
<1>4. ASSUME NEW f, NEW start, NEW num, CommitPubRandList(f, start, num)
      PROVE  UNCHANGED <<sigs, evidence, votes, slashed>>
  BY <1>4 DEF CommitPubRandList, voteVars, registryVars
<1>5. ASSUME NEW f, UnjailFinalityProvider(f)
      PROVE  UNCHANGED <<sigs, evidence, votes, slashed>>
  BY <1>5 DEF UnjailFinalityProvider, voteVars
<1>6. ASSUME UNCHANGED vars PROVE UNCHANGED <<sigs, evidence, votes, slashed>>
  BY <1>6 DEF vars, voteVars, registryVars
<1> QED BY <1>1, <1>2, <1>3, <1>4, <1>5, <1>6 DEF Next, Horizon

\* The part of the inductive invariant about stored evidence: where there is
\* none, no vote for a fork was accepted; and it holds a canonical signature
\* only once its provider is slashed, so a slashing vote always finds evidence
\* for another block.
EvidenceInv ==
    \A h \in Heights, f \in FPs :
        /\ evidence[h][f] = {} => votes[h][f] \subseteq {Canonical}
        /\ f \notin slashed => Canonical \notin evidence[h][f]

EquivocationInv == EvidenceInv /\ EquivocationSlashed /\ SlashedHasEvidence

\* A vote for a fork keeps the evidence invariant.
LEMMA VoteForForkKeeps ==
    ASSUME TypeOK, EquivocationInv, NEW f \in FPs, NEW h \in Heights,
           NEW hash \in ForkHashes, VoteForFork(f, h, hash)
    PROVE  EquivocationInv'
<1>1. f \notin slashed /\ hash # Canonical
  BY ParamsAssumption DEF VoteForFork, MayVote
<1>2. /\ sigs' = sigs
      /\ evidence' = [evidence EXCEPT ![h][f] = ForkEvidence(f, h, hash)]
      /\ votes' = [votes EXCEPT ![h][f] = @ \cup {hash}]
      /\ slashed' = IF f \in sigs[h] THEN slashed \cup {f} ELSE slashed
  BY DEF VoteForFork, Slash, registryVars
<1>3. /\ evidence'[h][f] = ForkEvidence(f, h, hash)
      /\ \A g \in FPs, k \in Heights :
           g # f \/ k # h => evidence'[k][g] = evidence[k][g] /\ votes'[k][g] = votes[k][g]
  BY <1>2 DEF TypeOK
<1>4. hash \in evidence'[h][f] /\ (Canonical \in evidence'[h][f] <=> f \in sigs[h])
  BY <1>1, <1>3 DEF ForkEvidence
<1>5. EvidenceInv'
  <2> SUFFICES ASSUME NEW k \in Heights, NEW g \in FPs
               PROVE  /\ evidence'[k][g] = {} => votes'[k][g] \subseteq {Canonical}
                      /\ g \notin slashed' => Canonical \notin evidence'[k][g]
    BY DEF EvidenceInv
  <2>1. CASE k = h /\ g = f
    BY <1>2, <1>4, <2>1
  <2>2. CASE k # h \/ g # f
    BY <1>2, <1>3, <2>2 DEF EquivocationInv, EvidenceInv
  <2> QED BY <2>1, <2>2
<1>6. EquivocationSlashed'
  <2> SUFFICES ASSUME NEW k \in Heights, NEW g \in FPs,
                      g \in sigs[k], votes'[k][g] # {Canonical}
               PROVE  g \in slashed'
    BY <1>2 DEF EquivocationSlashed
  <2>1. CASE k = h /\ g = f
    BY <1>2, <2>1
  <2>2. CASE k # h \/ g # f
    BY <1>2, <1>3, <2>2 DEF EquivocationInv, EquivocationSlashed
  <2> QED BY <2>1, <2>2
<1>7. SlashedHasEvidence'
  <2> SUFFICES ASSUME NEW g \in slashed'
               PROVE  \E k \in Heights : /\ Canonical \in evidence'[k][g]
                                         /\ evidence'[k][g] # {Canonical}
    BY DEF SlashedHasEvidence
  <2>1. CASE g \in slashed
    <3>1. g # f /\ g \in FPs
      BY <1>1, <2>1 DEF TypeOK
    <3>2. PICK k \in Heights : Canonical \in evidence[k][g] /\ evidence[k][g] # {Canonical}
      BY <2>1 DEF EquivocationInv, SlashedHasEvidence
    <3>3. evidence'[k][g] = evidence[k][g]
      BY <1>3, <3>1
    <3> QED BY <3>2, <3>3
  <2>2. CASE g \notin slashed
    <3>1. g = f /\ f \in sigs[h]
      BY <1>2, <2>2
    <3>2. Canonical \in evidence'[h][f]
      BY <1>4, <3>1
    <3>3. evidence'[h][f] # {Canonical}
      BY <1>1, <1>4
    <3> QED BY <3>1, <3>2, <3>3
  <2> QED BY <2>1, <2>2
<1> QED BY <1>5, <1>6, <1>7 DEF EquivocationInv

\* A vote for the indexed block keeps the evidence invariant.
LEMMA VoteForCanonicalKeeps ==
    ASSUME TypeOK, EquivocationInv, NEW f \in FPs, NEW h \in Heights,
           VoteForCanonical(f, h)
    PROVE  EquivocationInv'
<1> DEFINE found == evidence[h][f] # {}
<1>1. f \notin slashed /\ f \notin sigs[h]
  BY DEF VoteForCanonical, MayVote
<1>2. /\ sigs' = [sigs EXCEPT ![h] = @ \cup {f}]
      /\ votes' = [votes EXCEPT ![h][f] = @ \cup {Canonical}]
      /\ evidence' = IF found THEN [evidence EXCEPT ![h][f] = @ \cup {Canonical}] ELSE evidence
      /\ slashed' = IF found THEN slashed \cup {f} ELSE slashed
  BY DEF VoteForCanonical, Slash, registryVars
<1>3. /\ votes'[h][f] = votes[h][f] \cup {Canonical}
      /\ \A g \in FPs, k \in Heights : g # f \/ k # h => votes'[k][g] = votes[k][g]
  BY <1>2 DEF TypeOK
<1>4. /\ evidence'[h][f] = IF found THEN evidence[h][f] \cup {Canonical} ELSE {}
      /\ \A g \in FPs, k \in Heights : g # f \/ k # h => evidence'[k][g] = evidence[k][g]
  BY <1>2 DEF TypeOK
<1>5. \A g \in FPs, k \in Heights : g # f \/ k # h => (g \in sigs'[k] <=> g \in sigs[k])
  BY <1>2 DEF TypeOK
<1>6. Canonical \notin evidence[h][f]
  BY <1>1 DEF EquivocationInv, EvidenceInv
<1>7. ~found => votes[h][f] \subseteq {Canonical}
  BY DEF EquivocationInv, EvidenceInv
<1> HIDE DEF found
<1>8. EvidenceInv'
  <2> SUFFICES ASSUME NEW k \in Heights, NEW g \in FPs
               PROVE  /\ evidence'[k][g] = {} => votes'[k][g] \subseteq {Canonical}
                      /\ g \notin slashed' => Canonical \notin evidence'[k][g]
    BY DEF EvidenceInv
  <2>1. CASE k = h /\ g = f
    <3>1. CASE found
      BY <1>2, <1>4, <2>1, <3>1
    <3>2. CASE ~found
      BY <1>3, <1>4, <1>7, <2>1, <3>2
    <3> QED BY <3>1, <3>2
  <2>2. CASE k # h \/ g # f
    <3>1. evidence'[k][g] = evidence[k][g] /\ votes'[k][g] = votes[k][g]
      BY <1>3, <1>4, <2>2
    <3>2. g \notin slashed' => g \notin slashed
      BY <1>2
    <3> QED BY <3>1, <3>2 DEF EquivocationInv, EvidenceInv
  <2> QED BY <2>1, <2>2
<1>9. EquivocationSlashed'
  <2> SUFFICES ASSUME NEW k \in Heights, NEW g \in FPs,
                      g \in sigs'[k], votes'[k][g] # {Canonical}
               PROVE  g \in slashed'
    BY DEF EquivocationSlashed
  <2>1. CASE k = h /\ g = f
    BY <1>2, <1>3, <1>7, <2>1
  <2>2. CASE k # h \/ g # f
    BY <1>2, <1>3, <1>5, <2>2 DEF EquivocationInv, EquivocationSlashed
  <2> QED BY <2>1, <2>2
<1>10. SlashedHasEvidence'
  <2> SUFFICES ASSUME NEW g \in slashed'
               PROVE  \E k \in Heights : /\ Canonical \in evidence'[k][g]
                                         /\ evidence'[k][g] # {Canonical}
    BY DEF SlashedHasEvidence
  <2>1. CASE g \in slashed
    <3>1. g # f /\ g \in FPs
      BY <1>1, <2>1 DEF TypeOK
    <3>2. PICK k \in Heights : Canonical \in evidence[k][g] /\ evidence[k][g] # {Canonical}
      BY <2>1 DEF EquivocationInv, SlashedHasEvidence
    <3>3. evidence'[k][g] = evidence[k][g]
      BY <1>4, <3>1
    <3> QED BY <3>2, <3>3
  <2>2. CASE g \notin slashed
    <3>1. g = f /\ found
      BY <1>2, <2>2
    <3>2. PICK x \in evidence[h][f] : TRUE
      BY <3>1 DEF found
    <3>3. x # Canonical /\ x \in evidence'[h][f] /\ Canonical \in evidence'[h][f]
      BY <1>4, <1>6, <3>1, <3>2
    <3>4. evidence'[h][f] # {Canonical}
      BY <3>3
    <3> QED BY <3>1, <3>3, <3>4
  <2> QED BY <2>1, <2>2
<1> QED BY <1>8, <1>9, <1>10 DEF EquivocationInv

\* Whatever the order in which a provider's two votes of a height arrive, it is
\* slashed, and the evidence with both signatures stays stored (AddFinalitySig).
THEOREM EquivocationIsSlashed == Spec => []Accountable
<1>1. Init => EquivocationInv
  <2> SUFFICES ASSUME Init PROVE EquivocationInv
    OBVIOUS
  <2>1. /\ slashed = {}
        /\ \A h \in Heights, f \in FPs :
             sigs[h] = {} /\ votes[h][f] = {} /\ evidence[h][f] = {}
    BY DEF Init
  <2> QED BY <2>1 DEF EquivocationInv, EvidenceInv, EquivocationSlashed, SlashedHasEvidence
<1>2. TypeOK /\ EquivocationInv /\ [Next]_vars => EquivocationInv'
  <2> SUFFICES ASSUME TypeOK, EquivocationInv, [Next]_vars PROVE EquivocationInv'
    OBVIOUS
  <2>1. CASE UNCHANGED <<sigs, evidence, votes, slashed>>
    BY <2>1 DEF EquivocationInv, EvidenceInv, EquivocationSlashed, SlashedHasEvidence
  <2>2. ASSUME NEW f \in FPs, NEW h \in Heights, AddFinalitySig(f, h)
        PROVE  EquivocationInv'
    BY <2>2, VoteForForkKeeps, VoteForCanonicalKeeps DEF AddFinalitySig
  <2> QED BY <2>1, <2>2, OnlyVotesSlash
<1>3. EquivocationInv => Accountable
  BY DEF EquivocationInv, Accountable
<1> QED BY <1>1, <1>2, <1>3, TypeCorrect, PTL DEF Spec

-----------------------------------------------------------------------------
\* The settled prefix

\* Tallying never runs ahead of the chain, so the voting power table of a new
\* block is never below the next height to finalize.
SettledInv == SettledPrefix /\ nextFinalize <= height + 1

\* The table that BeginBlock writes is above the settled prefix.
LEMMA BeginBlockSettles ==
    ASSUME TypeOK, SettledInv, BeginBlock
    PROVE  SettledInv'
<1>1. /\ height' = height + 1 /\ nextFinalize' = nextFinalize /\ finalized' = finalized
      /\ height \in Nat /\ nextFinalize \in Nat
  <2>1. height' = height + 1 /\ nextFinalize' = nextFinalize /\ finalized' = finalized
    BY DEF BeginBlock, blockVars
  <2> QED BY <2>1, CounterTypes
<1>2. \A h \in Heights : h # height + 1 => power'[h] = power[h]
  BY DEF BeginBlock, TypeOK
<1>3. \A h \in Heights : h \in Int
  BY ParamsAssumption DEF Heights
<1>4. \A h \in Heights : h < nextFinalize => h # height + 1
  BY <1>1, <1>3 DEF SettledInv
<1>5. SettledPrefix'
  BY <1>1, <1>2, <1>3, <1>4 DEF SettledInv, SettledPrefix
<1> QED BY <1>1, <1>5 DEF SettledInv

\* A resume proposal for a height that finality waits at leaves the prefix alone.
LEMMA ResumeSettles ==
    ASSUME TypeOK, SettledInv, ResumeOnlyHalted, NEW list, NEW halting \in Heights,
           ResumeFinalityProposal(list, halting)
    PROVE  SettledInv'
<1>1. /\ height' = height /\ nextFinalize' = nextFinalize /\ finalized' = finalized
      /\ halting >= nextFinalize /\ nextFinalize \in Nat /\ halting \in Nat
  <2>1. /\ height' = height /\ nextFinalize' = nextFinalize /\ finalized' = finalized
        /\ halting >= nextFinalize
    BY DEF ResumeFinalityProposal, blockVars
  <2>2. halting \in Nat
    BY ParamsAssumption DEF Heights
  <2> QED BY <2>1, <2>2, CounterTypes
<1>2. \A h \in Heights : h \in Int
  BY ParamsAssumption DEF Heights
<1>3. power' = [h \in Heights |-> [f \in FPs |->
         IF h \in halting..height /\ f \in list \cap Entries(cache[h])
         THEN 0 ELSE power[h][f]]]
  BY DEF ResumeFinalityProposal
<1>4. \A h \in Heights : h < nextFinalize => h \notin halting..height
  BY <1>1, <1>2
<1>5. \A h \in Heights : h < nextFinalize => power'[h] = power[h]
  <2> SUFFICES ASSUME NEW h \in Heights, h < nextFinalize PROVE power'[h] = power[h]
    OBVIOUS
  <2>1. power'[h] = [f \in FPs |-> power[h][f]]
    BY <1>3, <1>4
  <2>2. power[h] \in Table
    BY DEF TypeOK
  <2> QED BY <2>1, <2>2 DEF Table
<1>6. SettledPrefix'
  BY <1>1, <1>5 DEF SettledInv, SettledPrefix
<1> QED BY <1>1, <1>6 DEF SettledInv

\* Tallying extends the settled prefix without a gap.
LEMMA EndBlockSettles ==
    ASSUME TypeOK, SettledInv, EndBlock
    PROVE  SettledInv'
<1>1. height' = height /\ power' = power /\ height \in Nat /\ nextFinalize \in Nat
  <2>1. height' = height /\ power' = power
    BY DEF EndBlock
  <2> QED BY <2>1, CounterTypes
<1>2. CASE IsFinalityActive
  <2> DEFINE start == TallyStart
             stop == TallyStop(start)
  <2>1. /\ finalized' = FinalizeBlocks(start, stop)
        /\ nextFinalize' = IF stop > start THEN stop ELSE nextFinalize
    BY <1>2 DEF EndBlock
  <2>2. PoweredHeights # {}
    BY <1>2 DEF IsFinalityActive
  <2>3. /\ start \in Nat /\ start >= nextFinalize
        /\ start \in {nextFinalize, BTCStakingActivatedHeight}
        /\ stop \in Int /\ stop <= height + 1
    BY <1>1, <2>2, TallyBounds
  <2>4. \A h \in Heights : h \in Int /\ (HasTable(power[h]) => BTCStakingActivatedHeight <= h)
    BY <2>2, ActivatedHeight, ParamsAssumption DEF Heights, PoweredHeights
  <2> HIDE DEF start, stop
  <2>5. ASSUME NEW h \in Heights, h \in finalized'
        PROVE  h < nextFinalize' /\ HasTable(power[h])
    BY <2>1, <2>3, <2>4, <2>5, <1>1 DEF FinalizeBlocks, SettledInv, SettledPrefix
  <2>6. ASSUME NEW h \in Heights, h < nextFinalize', HasTable(power[h])
        PROVE  h \in finalized'
    <3>1. CASE h < nextFinalize
      BY <2>1, <2>6, <3>1 DEF FinalizeBlocks, SettledInv, SettledPrefix
    <3>2. CASE ~(h < nextFinalize)
      <4>1. h >= start
        BY <1>1, <2>3, <2>4, <2>6, <3>2
      <4>2. h \in start..(stop - 1)
        BY <1>1, <2>1, <2>3, <2>4, <2>6, <3>2, <4>1
      <4> QED BY <2>1, <2>6, <4>2 DEF FinalizeBlocks
    <3> QED BY <3>1, <3>2
  <2> QED BY <1>1, <2>1, <2>3, <2>5, <2>6 DEF SettledInv, SettledPrefix
<1>3. CASE ~IsFinalityActive
  BY <1>1, <1>3 DEF EndBlock, blockVars, SettledInv, SettledPrefix
<1> QED BY <1>2, <1>3

\* If resume proposals only name heights that finality still waits at, then
\* below the next height to finalize exactly the blocks that have a voting power
\* table are finalized, in every block of every run: the comment of TallyBlocks.
THEOREM PrefixIsSettled == ASSUME ResumeOnlyHalted PROVE Spec => []SettledPrefix
<1>1. Init => SettledInv
  <2> SUFFICES ASSUME Init PROVE SettledInv
    OBVIOUS
  <2>1. nextFinalize = 0 /\ height = InitHeight /\ finalized = {}
    BY DEF Init
  <2>2. InitHeight \in Nat /\ \A h \in Heights : h > 0
    BY ParamsAssumption DEF Heights
  <2> QED BY <2>1, <2>2 DEF SettledInv, SettledPrefix, Heights
<1>2. TypeOK /\ SettledInv /\ [Next]_vars => SettledInv'
  <2> SUFFICES ASSUME TypeOK, SettledInv, [Next]_vars PROVE SettledInv'
    OBVIOUS
  <2>1. CASE UNCHANGED <<height, power, finalized, nextFinalize>>
    BY <2>1 DEF SettledInv, SettledPrefix
  <2>2. ASSUME NEW f, NEW start, NEW num, CommitPubRandList(f, start, num)
        PROVE  UNCHANGED <<height, power, finalized, nextFinalize>>
    BY <2>2 DEF CommitPubRandList, powerVars, blockVars
  <2>3. ASSUME NEW f, NEW h, AddFinalitySig(f, h)
        PROVE  UNCHANGED <<height, power, finalized, nextFinalize>>
    BY <2>3 DEF AddFinalitySig, VoteForFork, VoteForCanonical, powerVars, blockVars
  <2>4. ASSUME NEW f, UnjailFinalityProvider(f)
        PROVE  UNCHANGED <<height, power, finalized, nextFinalize>>
    BY <2>4 DEF UnjailFinalityProvider, powerVars, blockVars
  <2>5. ASSUME UNCHANGED vars
        PROVE  UNCHANGED <<height, power, finalized, nextFinalize>>
    BY <2>5 DEF vars, powerVars, blockVars
  <2> QED BY <2>1, <2>2, <2>3, <2>4, <2>5, BeginBlockSettles, ResumeSettles,
             EndBlockSettles DEF Next, Horizon
<1>3. SettledInv => SettledPrefix
  BY DEF SettledInv
<1> QED BY <1>1, <1>2, <1>3, TypeCorrect, PTL DEF Spec

=============================================================================
