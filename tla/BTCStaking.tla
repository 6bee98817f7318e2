----------------------------- MODULE BTCStaking -----------------------------
(***************************************************************************)
(* x/btcstaking: the registry of finality providers, the life of a BTC     *)
(* delegation, and the queue of power distribution events by BTC height;   *)
(* and the consumer of that queue, UpdatePowerDist of x/finality, as far   *)
(* as it turns events into bonded satoshis.                                *)
(*                                                                         *)
(* A delegation is a staking transaction; what the transaction says (its   *)
(* provider, value, timelocks, and the output it spends if it is a stake   *)
(* expansion) is constant. Signatures, scripts and Merkle proofs are       *)
(* valid inputs: a transaction is included wherever a proof says it is.    *)
(***************************************************************************)
EXTENDS Integers, Sequences, FiniteSetsExt

CONSTANTS
    FPs,                \* finality providers that may register
    Deleted,            \* providers that an upgrade has soft-deleted
    Dels,               \* staking transactions
    FpOf, StakerOf, TotalSat, StakingTime, UnbondingTime,   \* of each delegation
    PrevOf,             \* the delegation that a stake expansion spends, or None
    None,
    Covenants,          \* covenant keys
    AllParams,          \* the parameter versions that governance adopts, in order
    AllowListed,        \* staking transactions on the allow list
    BtcConfirmationDepth, CheckpointFinalizationTimeout,
    BaseHeight,         \* BTC height of the base header
    MaxTip, MaxReorg,   \* bounds on the tip and on the depth of a roll back
    ShorterForks,       \* may a fork with more work have fewer blocks?
    LateCovenant        \* do covenants sign a delegation after its expiry height?

Params == [activation : Nat, committee : SUBSET Covenants, quorum : Nat \ {0},
           unbonding : Nat, minTime : Nat, maxTime : Nat, minSat : Nat, maxSat : Nat]

Delegation == [start : Nat, end : Nat, tipAt : Nat, version : 1 .. Len(AllParams),
               sigs : SUBSET Covenants, unbonded : BOOLEAN]

ASSUME DelsAssumption ==
    /\ FpOf \in [Dels -> FPs] /\ TotalSat \in [Dels -> Nat \ {0}]
    /\ StakingTime \in [Dels -> Nat] /\ UnbondingTime \in [Dels -> Nat]
    /\ None \notin Dels /\ PrevOf \in [Dels -> Dels \cup {None}]
    /\ StakerOf \in [Dels -> Nat]
ASSUME BTCParamsAssumption ==
    /\ BtcConfirmationDepth \in Nat \ {0} /\ CheckpointFinalizationTimeout \in Nat
    /\ BaseHeight \in Nat \ {0} /\ MaxTip \in Nat /\ BaseHeight <= MaxTip /\ MaxReorg \in Nat
    /\ ShorterForks \in BOOLEAN /\ LateCovenant \in BOOLEAN
    /\ AllParams \in Seq(Params) /\ AllParams # <<>>
ASSUME NoneAssumption == None \notin Delegation

BTCHeights == 0 .. (MaxTip + Max({StakingTime[d] : d \in Dels} \cup {0}))
Kinds == {"ACTIVE", "UNBONDED", "EXPIRED"}

VARIABLES
    tip,            \* height of the tip of the BTC light client
    largestReorg,   \* LargestBtcReorg.BlockDiff, 0 if none
    versions,       \* number of adopted parameter versions
    allowListOver,  \* AllowListExpirationHeight has passed
    fps, slashed, jailed,   \* the registry of finality providers
    dels,           \* the stored delegations, None where there is none
    delEvents,      \* by BTC height: queued events of delegations
    fpEvents,       \* by BTC height: the last queued event of each provider
    indexed,        \* BTC height indexed at the current Babylon height
    sats, flagged,  \* distribution cache: bonded sats, providers marked jailed
    halted,         \* why the chain has halted, if it has
    counted         \* history: how often each delegation is counted in sats

lcVars == <<tip, largestReorg>>
paramVars == <<versions, allowListOver>>
fpVars == <<fps, slashed, jailed>>
eventVars == <<delEvents, fpEvents>>
powerVars == <<indexed, sats, flagged, halted, counted>>
vars == <<lcVars, paramVars, fpVars, dels, eventVars, powerVars>>

-----------------------------------------------------------------------------
Running == halted = "no"

(* The status of a delegation *)

Exists(d) == dels[d] # None
IsStakeExpansion(d) == PrevOf[d] # None
HasInclusionProof(r) == r.start > 0 /\ r.end > 0
ParamsOf(d) == AllParams[dels[d].version]

\* Mutant: the quorum of the previous version is not asked for.
HasNewQuorum(d, sigs) == Cardinality(sigs) >= ParamsOf(d).quorum

\* A stake expansion also needs the quorum of the committee of the staking
\* transaction it spends.
HasCovenantQuorums(d, sigs) ==
    /\ Cardinality(sigs) >= ParamsOf(d).quorum
    /\ IsStakeExpansion(d) => Cardinality(sigs) >= ParamsOf(PrevOf[d]).quorum

\* Mutant: a delegation expires one block late.
GetStatusLate(d, btcHeight) ==
    LET r == dels[d] IN
    IF r.unbonded THEN "UNBONDED"
    ELSE IF ~HasCovenantQuorums(d, r.sigs) THEN "PENDING"
    ELSE IF ~HasInclusionProof(r) THEN "VERIFIED"
    ELSE IF btcHeight < r.start THEN "UNBONDED"
    ELSE IF btcHeight + UnbondingTime[d] > r.end THEN "EXPIRED"
    ELSE "ACTIVE"

GetStatus(d, btcHeight) ==
    LET r == dels[d] IN
    IF r.unbonded THEN "UNBONDED"
    ELSE IF ~HasCovenantQuorums(d, r.sigs) THEN "PENDING"
    ELSE IF ~HasInclusionProof(r) THEN "VERIFIED"
    ELSE IF btcHeight < r.start THEN "UNBONDED"
    ELSE IF btcHeight + UnbondingTime[d] >= r.end THEN "EXPIRED"
    ELSE "ACTIVE"

\* GetParamsForBtcHeight: the last version that is activated at the height, 0
\* if there is none.
VersionAt(btcHeight) ==
    Max({0} \cup {v \in 1 .. versions : AllParams[v].activation <= btcHeight})

-----------------------------------------------------------------------------
(* The event queue *)

\* addPowerDistUpdateEvent for a set of <<height, <<kind, delegation>>>>.
AddDelEvents(E) ==
    /\ delEvents' = [h \in BTCHeights |-> delEvents[h] \cup {e[2] : e \in {x \in E : x[1] = h}}]
    /\ UNCHANGED fpEvents

\* A later event of a provider overrides an earlier one of the same height.
AddFpEvent(f, kind) ==
    /\ fpEvents' = [fpEvents EXCEPT ![tip][f] = kind]
    /\ UNCHANGED delEvents

-----------------------------------------------------------------------------
(* Finality providers *)

UpdateParams ==
    /\ Running
    /\ versions < Len(AllParams)
    /\ LET p == AllParams[versions + 1] IN
       /\ p.unbonding > CheckpointFinalizationTimeout
       /\ p.activation > AllParams[versions].activation
    /\ versions' = versions + 1
    /\ UNCHANGED <<lcVars, allowListOver, fpVars, dels, eventVars, powerVars>>

CreateFinalityProvider(f) ==
    /\ Running
    /\ f \notin fps
    /\ fps' = fps \cup {f}
    /\ UNCHANGED <<lcVars, paramVars, slashed, jailed, dels, eventVars, powerVars>>

\* SlashFinalityProvider, from selective slashing evidence here or from
\* equivocation in x/finality.
SlashFinalityProvider(f) ==
    /\ Running
    /\ f \in fps /\ f \notin slashed
    /\ slashed' = slashed \cup {f}
    /\ AddFpEvent(f, "SLASHED")
    /\ UNCHANGED <<lcVars, paramVars, fps, jailed, dels, powerVars>>

\* JailFinalityProvider and UnjailFinalityProvider, called by x/finality.
JailFinalityProvider(f) ==
    /\ Running
    /\ f \in fps /\ f \notin slashed /\ f \notin jailed
    /\ jailed' = jailed \cup {f}
    /\ AddFpEvent(f, "JAILED")
    /\ UNCHANGED <<lcVars, paramVars, fps, slashed, dels, powerVars>>

UnjailFinalityProvider(f) ==
    /\ Running
    /\ f \in fps /\ f \notin slashed /\ f \in jailed
    /\ jailed' = jailed \ {f}
    /\ AddFpEvent(f, "UNJAILED")
    /\ UNCHANGED <<lcVars, paramVars, fps, slashed, dels, powerVars>>

-----------------------------------------------------------------------------
(* Delegations *)

\* VerifyInclusionProofAndGetHeight for a proof that the transaction is in the
\* block at height s of the best chain.
VerifyInclusionProof(d, s) ==
    /\ tip - s >= BtcConfirmationDepth
    /\ tip + UnbondingTime[d] < s + StakingTime[d]

ValidateStakedFPs(d) == FpOf[d] \in fps /\ FpOf[d] \notin slashed /\ FpOf[d] \notin Deleted

\* ValidateParsedMessageAgainstTheParams, as far as it compares numbers.
ValidAgainstParams(d, p) ==
    /\ UnbondingTime[d] = p.unbonding
    /\ StakingTime[d] \in p.minTime .. p.maxTime
    /\ TotalSat[d] \in p.minSat .. p.maxSat

ExpiryHeightAtEnd(d, end) == end

ExpiryHeight(d, end) == end - UnbondingTime[d]

NewDelegation(start, end, v) ==
    [start |-> start, end |-> end, tipAt |-> tip, version |-> v, sigs |-> {}, unbonded |-> FALSE]

\* CreateBTCDelegation of the keeper; start is the height of the inclusion
\* proof, 0 if the message has none.
AddBTCDelegation(d, start) ==
    LET v == VersionAt(IF start > 0 THEN start ELSE tip)
        end == IF start > 0 THEN start + StakingTime[d] ELSE 0
    IN
    /\ Running /\ ~Exists(d)
    /\ ValidateStakedFPs(d)
    /\ start > 0 => VerifyInclusionProof(d, start)
    /\ v > 0 /\ ValidAgainstParams(d, AllParams[v])
    /\ allowListOver \/ d \in AllowListed
    /\ dels' = [dels EXCEPT ![d] = NewDelegation(start, end, v)]
    /\ AddDelEvents(IF start > 0 THEN {<<ExpiryHeight(d, end), <<"EXPIRED", d>>>>} ELSE {})
    /\ UNCHANGED <<lcVars, paramVars, fpVars, powerVars>>

CreateBTCDelegation(d, start) == ~IsStakeExpansion(d) /\ AddBTCDelegation(d, start)

HasSufficientCovenantOverlap(p, q) ==
    Cardinality(p.committee \cap q.committee) >= p.quorum

BtcStakeExpand(d) ==
    LET prev == PrevOf[d] IN
    /\ IsStakeExpansion(d) /\ Exists(prev)
    /\ GetStatus(prev, tip) = "ACTIVE"
    /\ StakerOf[d] = StakerOf[prev] /\ FpOf[d] = FpOf[prev] /\ TotalSat[d] >= TotalSat[prev]
    /\ VersionAt(tip) > 0
    /\ HasSufficientCovenantOverlap(ParamsOf(prev), AllParams[VersionAt(tip)])
    /\ AddBTCDelegation(d, 0)

\* addCovenantSigsToBTCDelegation queues the activation only when the quorum is
\* reached by this signature.
AddCovenantSigs(d, c) ==
    /\ Running
    /\ Exists(d)
    /\ LET r == dels[d]
           sigs == r.sigs \cup {c}
           reached == ~HasCovenantQuorums(d, r.sigs) /\ HasCovenantQuorums(d, sigs)
       IN
       /\ c \in ParamsOf(d).committee /\ c \notin r.sigs
       /\ GetStatus(d, tip) \notin {"UNBONDED", "EXPIRED"}
       /\ IsStakeExpansion(d) =>
             /\ c \in ParamsOf(PrevOf[d]).committee
             /\ HasSufficientCovenantOverlap(ParamsOf(PrevOf[d]), ParamsOf(d))
       /\ LateCovenant \/ ~HasInclusionProof(r) \/ tip < ExpiryHeight(d, r.end)
       /\ dels' = [dels EXCEPT ![d].sigs = sigs]
       /\ AddDelEvents(IF reached /\ HasInclusionProof(r) THEN {<<tip, <<"ACTIVE", d>>>>} ELSE {})
    /\ UNCHANGED <<lcVars, paramVars, fpVars, powerVars>>

\* The checks of AddBTCDelegationInclusionProof of the keeper.
CanAddInclusionProof(d, s) ==
    /\ ~HasInclusionProof(dels[d])
    /\ HasCovenantQuorums(d, dels[d].sigs)
    /\ ~dels[d].unbonded
    /\ VerifyInclusionProof(d, s)
    /\ s >= dels[d].tipAt

WithProof(d, s) == [dels[d] EXCEPT !.start = s, !.end = s + StakingTime[d]]

InclusionEvents(d, s) ==
    {<<tip, <<"ACTIVE", d>>>>, <<ExpiryHeight(d, s + StakingTime[d]), <<"EXPIRED", d>>>>}

AddBTCDelegationInclusionProof(d, s) ==
    /\ Running
    /\ Exists(d) /\ ~IsStakeExpansion(d)
    /\ CanAddInclusionProof(d, s)
    /\ dels' = [dels EXCEPT ![d] = WithProof(d, s)]
    /\ AddDelEvents(InclusionEvents(d, s))
    /\ UNCHANGED <<lcVars, paramVars, fpVars, powerVars>>

CanUndelegate(d) == Exists(d) /\ GetStatus(d, tip) \notin {"UNBONDED", "EXPIRED"}

UnbondingEvents(d) == IF HasInclusionProof(dels[d]) THEN {<<tip, <<"UNBONDED", d>>>>} ELSE {}

\* BTCUndelegate with a spending transaction that is not a live stake
\* expansion: the unbonding transaction, an unexpected one, or an expansion that
\* is not registered or was itself unbonded. It need not be deep.
BTCUndelegate(d) ==
    /\ Running
    /\ CanUndelegate(d)
    /\ dels' = [dels EXCEPT ![d].unbonded = TRUE]
    /\ AddDelEvents(UnbondingEvents(d))
    /\ UNCHANGED <<lcVars, paramVars, fpVars, powerVars>>

\* BTCUndelegate with the transaction of the registered stake expansion e,
\* included at height s: activates e and unbonds what it spends.
BTCUndelegateByExpansion(e, s) ==
    LET d == PrevOf[e] IN
    /\ Running /\ IsStakeExpansion(e) /\ Exists(e)
    /\ CanUndelegate(d)
    /\ CanAddInclusionProof(e, s)
    /\ dels' = [dels EXCEPT ![e] = WithProof(e, s), ![d].unbonded = TRUE]
    /\ AddDelEvents(InclusionEvents(e, s) \cup UnbondingEvents(d))
    /\ UNCHANGED <<lcVars, paramVars, fpVars, powerVars>>

-----------------------------------------------------------------------------
(* The BTC light client, and the blocks of Babylon *)

\* InsertHeaders of the light client as btcstaking sees it: the chain rolls back
\* to height r and forward to height t, with more work than before.
InsertHeaders(r, t) ==
    /\ Running
    /\ tip - r \in 0 .. MaxReorg /\ r < t
    /\ t > tip \/ (ShorterForks /\ r < tip)
    /\ tip' = t
    /\ largestReorg' = Max({largestReorg, tip - r})
    /\ UNCHANGED <<paramVars, fpVars, dels, eventVars, powerVars>>

\* The state of a provider after all its events at the heights H: SLASHED is
\* applied last, of the others the last one stands.
FpState(f, H) ==
    LET at == {h \in H : fpEvents[h][f] # "NONE"} IN
    IF at = {} THEN "NONE"
    ELSE IF \E h \in at : fpEvents[h][f] = "SLASHED" THEN "SLASHED"
    ELSE fpEvents[Max(at)][f]

HasEvent(kind, d, H) == \E h \in H : <<kind, d>> \in delEvents[h]

\* Mutant: the expiry of an unbonded delegation counts again.
DeltaIgnoringUnbonded(d, H) ==
    LET One(b) == IF b THEN 1 ELSE 0
        quorum == Exists(d) /\ HasCovenantQuorums(d, dels[d].sigs)
    IN One(HasEvent("ACTIVE", d, H))
       - One(HasEvent("UNBONDED", d, H) /\ quorum)
       - One(HasEvent("EXPIRED", d, H) /\ quorum)

\* What processEventsAtHeight and processExpiredEvents add up for a delegation:
\* an activation is taken without a check, an unbonding counts if the
\* delegation has a quorum, an expiry if it also was not unbonded before.
Delta(d, H) ==
    LET One(b) == IF b THEN 1 ELSE 0
        quorum == Exists(d) /\ HasCovenantQuorums(d, dels[d].sigs)
    IN One(HasEvent("ACTIVE", d, H))
       - One(HasEvent("UNBONDED", d, H) /\ quorum)
       - One(HasEvent("EXPIRED", d, H) /\ quorum /\ ~dels[d].unbonded)

\* A slashed provider loses its entry, and never gets a new one.
Dropped(f, H) == FpState(f, H) = "SLASHED" \/ (sats[f] = 0 /\ f \in slashed)

NewSats(f, H) ==
    IF Dropped(f, H) THEN 0
    ELSE sats[f] + MapThenSumSet(LAMBDA d : TotalSat[d] * Delta(d, H), {d \in Dels : FpOf[d] = f})

\* Mutant: a new entry does not take the jailed flag of the registry.
FlaggedByEvent(f, H) ==
    LET s == FpState(f, H) IN
    s = "JAILED" \/ (s # "UNJAILED" /\ sats[f] > 0 /\ f \in flagged)

\* The jailed flag of an entry: the event decides, else an old entry keeps its
\* flag and a new one takes it from the registry.
FlaggedAfter(f, H) ==
    LET s == FpState(f, H) IN
    s = "JAILED" \/ (s # "UNJAILED" /\ f \in (IF sats[f] > 0 THEN flagged ELSE jailed))

\* Mutant: the expiry of an unbonded delegation is skipped and left in the queue.
UpdatePowerDistSkips(H) ==
    LET new == [f \in FPs |-> NewSats(f, H)]
        Skipped(q) == q[1] = "EXPIRED" /\ dels[q[2]].unbonded
    IN
    IF \E f \in FPs : new[f] < 0
    THEN halted' = "negative sats" /\ UNCHANGED <<sats, flagged, counted, delEvents, fpEvents>>
    ELSE /\ sats' = new
         /\ flagged' = {f \in FPs : new[f] > 0 /\ FlaggedAfter(f, H)}
         /\ counted' = [d \in Dels |-> IF Dropped(FpOf[d], H) THEN 0 ELSE counted[d] + Delta(d, H)]
         /\ delEvents' = [h \in BTCHeights |->
                              IF h \in H THEN {q \in delEvents[h] : Skipped(q)} ELSE delEvents[h]]
         /\ fpEvents' = [h \in BTCHeights |->
                             IF h \in H THEN [f \in FPs |-> "NONE"] ELSE fpEvents[h]]
         /\ UNCHANGED halted

\* UpdatePowerDist consumes the events of all BTC heights from the one indexed
\* at the previous Babylon height to the tip; ChangeDeltaSats panics on a
\* negative balance.
UpdatePowerDist(H) ==
    LET new == [f \in FPs |-> NewSats(f, H)] IN
    IF \E f \in FPs : new[f] < 0
    THEN halted' = "negative sats" /\ UNCHANGED <<sats, flagged, counted, delEvents, fpEvents>>
    ELSE /\ sats' = new
         /\ flagged' = {f \in FPs : new[f] > 0 /\ FlaggedAfter(f, H)}
         /\ counted' = [d \in Dels |-> IF Dropped(FpOf[d], H) THEN 0 ELSE counted[d] + Delta(d, H)]
         /\ delEvents' = [h \in BTCHeights |-> IF h \in H THEN {} ELSE delEvents[h]]
         /\ fpEvents' = [h \in BTCHeights |->
                             IF h \in H THEN [f \in FPs |-> "NONE"] ELSE fpEvents[h]]
         /\ UNCHANGED halted

\* Mutant: the events queued at the indexed height are taken for consumed.
BeginBlockAfterIndexed ==
    /\ Running
    /\ largestReorg < BtcConfirmationDepth
    /\ indexed' = tip
    /\ \E over \in {allowListOver, TRUE} : allowListOver' = over
    /\ UpdatePowerDist((indexed + 1) .. tip)
    /\ UNCHANGED <<lcVars, versions, fpVars, dels>>

\* BeginBlock of the next Babylon block: IndexBTCHeight, then UpdatePowerDist.
BeginBlock ==
    /\ Running
    /\ largestReorg < BtcConfirmationDepth
    /\ indexed' = tip
    /\ \E over \in {allowListOver, TRUE} : allowListOver' = over
    /\ UpdatePowerDist(indexed .. tip)
    /\ UNCHANGED <<lcVars, versions, fpVars, dels>>

\* EndBlocker: HaltIfBtcReorgLargerThanConfirmationDepth.
HaltOnReorg ==
    /\ Running
    /\ largestReorg >= BtcConfirmationDepth
    /\ halted' = "reorg"
    /\ UNCHANGED <<lcVars, paramVars, fpVars, dels, eventVars, indexed, sats, flagged, counted>>

-----------------------------------------------------------------------------
Init ==
    /\ tip = BaseHeight /\ indexed = tip /\ largestReorg = 0
    /\ versions = 1 /\ allowListOver = (AllowListed = {})
    /\ fps = {} /\ slashed = {} /\ jailed = {}
    /\ dels = [d \in Dels |-> None]
    /\ delEvents = [h \in BTCHeights |-> {}]
    /\ fpEvents = [h \in BTCHeights |-> [f \in FPs |-> "NONE"]]
    /\ sats = [f \in FPs |-> 0] /\ flagged = {}
    /\ halted = "no"
    /\ counted = [d \in Dels |-> 0]

Next ==
    \/ UpdateParams
    \/ \E f \in FPs : CreateFinalityProvider(f)
    \/ \E f \in FPs : SlashFinalityProvider(f)
    \/ \E f \in FPs : JailFinalityProvider(f)
    \/ \E f \in FPs : UnjailFinalityProvider(f)
    \/ \E d \in Dels, s \in {0} \cup BaseHeight .. tip : CreateBTCDelegation(d, s)
    \/ \E d \in Dels : BtcStakeExpand(d)
    \/ \E d \in Dels, c \in Covenants : AddCovenantSigs(d, c)
    \/ \E d \in Dels, s \in BaseHeight .. tip : AddBTCDelegationInclusionProof(d, s)
    \/ \E d \in Dels : BTCUndelegate(d)
    \/ \E e \in Dels, s \in BaseHeight .. tip : BTCUndelegateByExpansion(e, s)
    \/ \E r, t \in BaseHeight .. MaxTip : InsertHeaders(r, t)
    \/ BeginBlock
    \/ HaltOnReorg

Spec == Init /\ [][Next]_vars

\* Blocks keep coming, whatever the messages in them.
FairSpec == Spec /\ WF_vars(BeginBlock)

-----------------------------------------------------------------------------
(* Properties *)

\* The type of the stores of x/btcstaking and of the distribution cache.
TypeOK ==
    /\ tip \in BaseHeight .. MaxTip /\ indexed \in BaseHeight .. MaxTip
    /\ largestReorg \in Nat /\ versions \in 1 .. Len(AllParams) /\ allowListOver \in BOOLEAN
    /\ slashed \subseteq fps /\ jailed \subseteq fps /\ fps \subseteq FPs
    /\ dels \in [Dels -> Delegation \cup {None}]
    /\ delEvents \in [BTCHeights -> SUBSET (Kinds \X Dels)]
    /\ fpEvents \in [BTCHeights -> [FPs -> {"NONE", "JAILED", "UNJAILED", "SLASHED"}]]
    /\ sats \in [FPs -> Nat] /\ flagged \subseteq FPs
    /\ halted \in {"no", "reorg", "negative sats"}
    /\ counted \in [Dels -> Int]

\* The satoshis of a delegation are never added twice nor removed twice, in
\* however many pieces UpdatePowerDist consumes its events, and what an unbonding
\* or an expiry subtracts was added before: ChangeDeltaSats never panics.
\* The stores of x/btcstaking stay well typed meanwhile.
CountedOnce ==
    /\ TypeOK
    /\ halted # "negative sats" /\ \A d \in Dels : counted[d] \in {0, 1}

ActiveSats(f) ==
    MapThenSumSet(LAMBDA d : TotalSat[d],
                  {d \in Dels : Exists(d) /\ FpOf[d] = f /\ GetStatus(d, tip) = "ACTIVE"})

\* Nothing has happened since the last BeginBlock that waits for the next one.
Settled ==
    indexed = tip /\ delEvents[tip] = {} /\ \A f \in FPs : fpEvents[tip][f] = "NONE"

\* From BeginBlock until the next event is queued, the bonded sats of every
\* provider that is not slashed are those of its delegations that GetStatus
\* calls active: "The BTC delegation d has voting power iff it is active"
\* (btc_delegation.go).
PowerIffActive == Settled => \A f \in FPs \ slashed : sats[f] = ActiveSats(f)

\* After BeginBlock the distribution cache follows the registry: a slashed provider
\* has no entry, and the jailed flag of every entry is the one of the registry,
\* whatever the order of jailing, unjailing and slashing.
CacheFollowsRegistry ==
    Settled => /\ \A f \in slashed : sats[f] = 0
               /\ \A f \in FPs : sats[f] > 0 => (f \in flagged <=> f \in jailed)

\* BTCUndelegate gives a stake expansion its inclusion proof only together with
\* the unbonding of the delegation that it spends: the coins never stake twice.
ExpansionReplaces ==
    \A e \in Dels : IsStakeExpansion(e) /\ Exists(e) /\ HasInclusionProof(dels[e])
                        => dels[PrevOf[e]].unbonded

\* A stake expansion becomes active only with the signatures of a quorum of the
\* committee of the staking transaction it spends and of a quorum of its own,
\* however governance rotates the committee in between (AddCovenantSigs).
ExpansionQuorum ==
    \A e \in Dels :
        IsStakeExpansion(e) /\ Exists(e) /\ GetStatus(e, tip) = "ACTIVE" =>
            \A p \in {ParamsOf(e), ParamsOf(PrevOf[e])} :
                Cardinality(dels[e].sigs \cap p.committee) >= p.quorum

\* A stake expansion takes the place of the delegation it spends, and only with
\* the quorums of both (BTCUndelegate, AddCovenantSigs).
SafeExpansion == ExpansionReplaces /\ ExpansionQuorum

\* An event that is queued at a height the tip has reached is consumed by
\* UpdatePowerDist, unless the chain halts.
EventsAreConsumed ==
    \A h \in BTCHeights :
        (h <= tip /\ delEvents[h] # {}) ~> (delEvents[h] = {} \/ largestReorg >= BtcConfirmationDepth)
=============================================================================
