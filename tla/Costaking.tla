----------------------------- MODULE Costaking -----------------------------
(***************************************************************************)
(* x/costaking: a reward pool for addresses that stake both BTC and BABY.  *)
(*                                                                         *)
(* The score of a costaker is the smaller of its active satoshis and its   *)
(* active BABY divided by a ratio.  Neither amount is read where it lives: *)
(* the module keeps its own copy in a tracker per costaker and follows the *)
(* other modules through hooks.                                            *)
(*                                                                         *)
(*  - Satoshis count while the finality provider is active.  x/finality    *)
(*    reports changes of delegations, then providers that enter or leave   *)
(*    the active set; for those the stake is read from x/incentive, whose  *)
(*    trackers lag behind and are corrected by its queued events.          *)
(*  - BABY counts while the validator is active.  x/staking reports every  *)
(*    change of a delegation before and after it happens; the amount       *)
(*    before is kept in memory (StakingCache).  x/epoching reports the end *)
(*    of an epoch, when the validator set changes.                         *)
(*                                                                         *)
(* x/staking is external: a delegation is worth a number of tokens with a  *)
(* fraction, kept here in units of 1/Frac, and slashing takes half of it.  *)
(***************************************************************************)
EXTENDS Integers, Sequences, FiniteSets, FiniteSetsExt, SequencesExt

CONSTANTS
    Costakers,       \* addresses
    Fps,             \* finality providers
    Vals,            \* validators
    Delegations,     \* records [fp, del, sat], the BTC delegations
    InitStatus,      \* their status before the first block
    InitActive,      \* providers that are active before the first block
    InitBaby,        \* [Costakers -> [Vals -> Nat]], tokens delegated at genesis
    InitValSet,      \* validators of the first epoch
    Amounts,         \* token amounts of the staking messages
    Rewards,         \* amounts of the costaking portion of a block
    Ratios,          \* values of ScoreRatioBtcByBaby
    InitRatio,
    Frac,            \* units in a token
    DecimalRewards,  \* scale of the rewards in the pool
    Bounds,          \* how often each kind of action may happen, and all (steps)
    None

VARIABLES
    status,    \* [Delegations -> "pending", "active", "unbonded"]
    active,    \* providers active in the latest power distribution
    satOf,     \* x/incentive: satoshis in its trackers, None without one
    pending,   \* x/incentive: queued events, a sequence per height
    worth,     \* x/staking: value of each delegation, in 1/Frac tokens
    valSet,    \* the validators of the current epoch
    stkCache,  \* StakingCache: values before a change, None when absent
    phase,     \* "block", or "epoch" while the last block of an epoch ends
    cs,        \* the state of x/costaking
    left,      \* how often each kind of action may still happen
    due,       \* history: what each costaker is due, see CostakersPaid
    rounded    \* history: roundings of each costaker's ActiveBaby

vars == <<status, active, satOf, pending, worth, valSet, stkCache, phase, cs,
          left, due, rounded>>

----------------------------------------------------------------------------
(* Stake as the other modules know it *)

StakeOf(st, fp, c) ==
    MapThenSumSet(LAMBDA d : d.sat,
                  {d \in Delegations : d.fp = fp /\ d.del = c /\ st[d] = "active"})

\* A delegation's value in whole tokens (TokensFromShares, truncated).
Tokens(w) == w \div Frac

\* TruncateInt of a difference, which may be negative.
TruncateDiff(w) == IF w >= 0 THEN w \div Frac ELSE -((-w) \div Frac)

Delegators(w, v) == {c \in Costakers : w[c][v] > 0}

\* A common multiple of the sums of scores: amounts due are counted in units
\* of 1/Unit coins.
Unit == FoldSet(LAMBDA n, product : n * product, 1,
                1 .. MapThenSumSet(LAMBDA d : d.sat, Delegations))

----------------------------------------------------------------------------
(* The reward pool and its trackers.  A state s is a record:               *)
(*   pool     [rewards, period, score], the current rewards                *)
(*   hist     cumulative rewards per score, the one of period p at p + 1   *)
(*   trk[c]   None or [start, sats, baby, score]                           *)
(*   ratio    ScoreRatioBtcByBaby                                          *)
(*   coins    coins sent to each costaker's gauge in x/incentive           *)
(*   balance  balance of the costaking module account                      *)
(*   err      a hook returned an error                                     *)
(*   paid     history: number of payments to each costaker                 *)

CalculateScore(ratio, baby, sats) == Min({sats, baby \div ratio})

\* AddRewardsForCostakers: rewards are kept with decimals.
AddRewardsForCostakers(s, amount) ==
    [s EXCEPT !.pool.rewards = @ + amount * DecimalRewards,
              !.balance = @ + amount]

IncrementRewardsPeriod(s) ==
    LET perScore == IF s.pool.score = 0 THEN 0 ELSE s.pool.rewards \div s.pool.score
    IN  [s EXCEPT !.hist = Append(@, @[s.pool.period] + perScore),
                  !.pool = [rewards |-> 0, period |-> s.pool.period + 1,
                            score |-> s.pool.score]]

CalculateCostakerRewards(s, c, endPeriod) ==
    LET t == s.trk[c]
    IN  IF t = None THEN 0
        ELSE IF t.score = 0 THEN 0
        ELSE ((s.hist[endPeriod + 1] - s.hist[t.start + 1]) * t.score) \div DecimalRewards

\* The rewards go to the gauge and the coins to x/incentive; the transfer
\* fails when the module account does not hold them.
CalculateCostakerRewardsAndSendToGauge(s, c, endPeriod) ==
    LET rewards == CalculateCostakerRewards(s, c, endPeriod)
    IN  IF rewards > s.balance THEN [s EXCEPT !.err = TRUE]
        ELSE [s EXCEPT !.coins[c] = @ + rewards, !.balance = @ - rewards,
                       !.paid[c] = @ + 1]

initializeCoStakerRwdTracker(s, c) ==
    IF s.trk[c] = None THEN [s EXCEPT !.err = TRUE]
    ELSE [s EXCEPT !.trk[c].start = s.pool.period - 1]

\* End the period and pay the costaker.
Settle(s, c) ==
    CalculateCostakerRewardsAndSendToGauge(IncrementRewardsPeriod(s), c, s.pool.period)

\* The tracker is stored after the payment, and the pool's total follows.
StoreTracker(s, c, t, delta) ==
    IF s.pool.score + delta < 0 THEN [s EXCEPT !.err = TRUE]
    ELSE [s EXCEPT !.trk[c] = t, !.pool.score = @ + delta]

\* Mutant: the tracker and the total change before the period ends.
costakerModifiedScoreFirst(s, c, t, delta) ==
    initializeCoStakerRwdTracker(Settle(StoreTracker(s, c, t, delta), c), c)

costakerModifiedScore(s, c, t, delta) ==
    initializeCoStakerRwdTracker(StoreTracker(Settle(s, c), c, t, delta), c)

GetCostakerRewardsOrInitialize(s, c) ==
    IF s.trk[c] = None
    THEN [start |-> s.pool.period, sats |-> 0, baby |-> 0, score |-> 0]
    ELSE s.trk[c]

\* A hook changes the amounts of a costaker: ActiveBaby is raised to zero,
\* negative satoshis are an error, and only a change of score ends a period.
costakerModified(s, c, dSats, dBaby) ==
    LET old   == GetCostakerRewardsOrInitialize(s, c)
        sats  == old.sats + dSats
        baby  == Max({old.baby + dBaby, 0})
        score == CalculateScore(s.ratio, baby, sats)
        new   == [old EXCEPT !.sats = sats, !.baby = baby, !.score = score]
    IN  IF s.err THEN s
        ELSE IF sats < 0 THEN [s EXCEPT !.err = TRUE]
        ELSE IF score = old.score THEN [s EXCEPT !.trk[c] = new]
        ELSE costakerModifiedScore(s, c, new, score - old.score)

\* Mutant: the pool keeps its total.
UpdateScoresOnly(s, ratio) ==
    LET New(t) == [t EXCEPT !.score = CalculateScore(ratio, t.baby, t.sats)]
        known  == {c \in Costakers : s.trk[c] # None}
        One(c, acc) == initializeCoStakerRwdTracker(
                           [Settle(acc, c) EXCEPT !.trk[c] = New(@)], c)
    IN  [FoldSet(One, s, known) EXCEPT !.ratio = ratio]

\* UpdateAllCostakersScore: the pool's total is set after a second period end.
UpdateAllCostakersScore(s, ratio) ==
    LET ended  == s.pool.period
        s1     == IncrementRewardsPeriod(s)
        New(t) == [t EXCEPT !.score = CalculateScore(ratio, t.baby, t.sats)]
        One(c, acc) ==
            IF New(acc.trk[c]) = acc.trk[c] THEN acc
            ELSE LET paid == CalculateCostakerRewardsAndSendToGauge(acc, c, ended)
                 IN  initializeCoStakerRwdTracker([paid EXCEPT !.trk[c] = New(@)], c)
        known  == {c \in Costakers : s.trk[c] # None}
        s2     == FoldSet(One, s1, known)
    IN  [IncrementRewardsPeriod(s2) EXCEPT
            !.pool.score = MapThenSumSet(LAMBDA c : s2.trk[c].score, known),
            !.ratio = ratio]

----------------------------------------------------------------------------
(* Hooks of x/finality *)

Sign(e) == IF e.kind = "activated" THEN e.sat ELSE -e.sat

\* Mutant: whether or not the provider is active.
DelegationHooksAnyProvider(s, evs, prev) ==
    FoldLeft(LAMBDA acc, e : costakerModified(acc, e.del, Sign(e), 0), s, evs)

\* AfterBtcDelegationActivated and AfterBtcDelegationUnbonded: only for a
\* provider that was active at the previous height.
DelegationHooks(s, evs, prev) ==
    FoldLeft(LAMBDA acc, e : IF e.fp \in prev
                             THEN costakerModified(acc, e.del, Sign(e), 0)
                             ELSE acc, s, evs)

\* IterateBTCDelegationSatsUpdated: the tracker of x/incentive plus what is
\* queued; delegators that have neither are not visited.
SatsUpdated(queue, fp, c) ==
    LET mine == SelectSeq(FlattenSeq(queue), LAMBDA e : e.fp = fp /\ e.del = c)
        sum  == FoldLeft(LAMBDA n, e : n + Sign(e), 0, mine)
    IN  IF satOf[fp][c] # None THEN satOf[fp][c] + sum
        ELSE IF mine # <<>> THEN sum ELSE None

\* AfterBbnFpEntersActiveSet (sign 1) and AfterBbnFpRemovedFromActiveSet
\* (sign -1) for a set of providers.
ProviderHooks(s, queue, fps, sign) ==
    FoldSet(LAMBDA p, acc :
                LET n == SatsUpdated(queue, p[1], p[2])
                IN  IF n = None THEN acc ELSE costakerModified(acc, p[2], sign * n, 0),
            s, fps \X Costakers)

----------------------------------------------------------------------------
TypeOK ==
    /\ status \in [Delegations -> {"pending", "active", "unbonded"}]
    /\ active \subseteq Fps /\ valSet \subseteq Vals /\ valSet # {}
    /\ worth \in [Costakers -> [Vals -> Nat]]
    /\ phase \in {"block", "epoch"}
    /\ cs.pool \in [rewards : Nat, period : Nat, score : Nat]
    /\ Len(cs.hist) = cs.pool.period
    /\ cs.coins \in [Costakers -> Nat] /\ cs.balance \in Nat
    /\ \A c \in Costakers :
          \/ cs.trk[c] = None
          \/ /\ cs.trk[c] \in [start : Nat, sats : Nat, baby : Nat, score : Nat]
             /\ cs.trk[c].score > 0 => cs.trk[c].start < cs.pool.period

NoCache == [c \in Costakers |-> [v \in Vals |-> None]]

\* The chain starts with stake of both kinds, known to every module; the pool
\* is empty and costakers start at period 0.
Init ==
    LET sats(c)  == MapThenSumSet(LAMBDA fp : StakeOf(InitStatus, fp, c), InitActive)
        baby(c)  == MapThenSumSet(LAMBDA v : InitBaby[c][v], InitValSet)
        score(c) == CalculateScore(InitRatio, baby(c), sats(c))
    IN  /\ status = InitStatus
        /\ active = InitActive
        /\ satOf = [fp \in Fps |-> [c \in Costakers |->
                       IF StakeOf(InitStatus, fp, c) > 0
                       THEN StakeOf(InitStatus, fp, c) ELSE None]]
        /\ pending = <<>>
        /\ worth = [c \in Costakers |-> [v \in Vals |-> InitBaby[c][v] * Frac]]
        /\ valSet = InitValSet
        /\ stkCache = NoCache
        /\ phase = "block"
        /\ cs = [pool |-> [rewards |-> 0, period |-> 1,
                           score |-> MapThenSumSet(score, Costakers)],
                 hist |-> <<0>>,
                 trk  |-> [c \in Costakers |->
                             IF sats(c) = 0 /\ baby(c) = 0 THEN None
                             ELSE [start |-> 0, sats |-> sats(c), baby |-> baby(c),
                                   score |-> score(c)]],
                 ratio |-> InitRatio,
                 coins |-> [c \in Costakers |-> 0],
                 balance |-> 0,
                 err |-> FALSE,
                 paid |-> [c \in Costakers |-> 0]]
        /\ left = Bounds
        /\ due = [c \in Costakers |-> 0]
        /\ rounded = [c \in Costakers |-> 0]

\* Guard and effect of the bounds: actions of each kind, and of all kinds.
Spend(kind) ==
    /\ ~cs.err /\ left[kind] > 0 /\ left.steps > 0
    /\ left' = [left EXCEPT ![kind] = @ - 1, !.steps = @ - 1]

----------------------------------------------------------------------------
(* Blocks *)

Events(kind, ds) ==
    LET seq == SetToSeq(ds)
    IN  [i \in 1 .. Len(seq) |->
            [kind |-> kind, fp |-> seq[i].fp, del |-> seq[i].del, sat |-> seq[i].sat]]

\* Mutant: the unbonded delegations come first.
BlockEventsUnbondedFirst(activated, unbonded) ==
    Events("unbonded", unbonded) \o Events("activated", activated)

\* The events of a block's delegations; one that was activated and unbonded
\* since the last block is in both parts.
BlockEvents(activated, unbonded) ==
    Events("activated", activated) \o Events("unbonded", unbonded)

\* BeginBlock: the costaking portion of the fees joins the pool, x/finality
\* updates the power distribution and calls the hooks of the delegations,
\* activations first, then those of the providers that enter and leave the
\* active set.  x/incentive has queued the events by then.
BeginBlock(reward, activated, unbonded, act) ==
    /\ phase = "block" /\ Spend("blocks")
    /\ \A d \in activated : status[d] = "pending"
    /\ \A d \in unbonded : status[d] = "active" \/ d \in activated
    /\ LET st    == [d \in Delegations |->
                        IF d \in unbonded THEN "unbonded"
                        ELSE IF d \in activated THEN "active" ELSE status[d]]
           evs   == BlockEvents(activated, unbonded)
           queue == Append(pending, evs)
           s1    == AddRewardsForCostakers(cs, reward)
           s2    == DelegationHooks(s1, evs, active)
           s3    == ProviderHooks(s2, queue, act \ active, 1)
           s4    == ProviderHooks(s3, queue, active \ act, -1)
       IN  /\ \A fp \in act : \E c \in Costakers : StakeOf(st, fp, c) > 0
           /\ status' = st
           /\ pending' = queue
           /\ cs' = s4
           /\ due' = [c \in Costakers |->
                 IF cs.pool.score = 0 \/ cs.trk[c] = None THEN due[c]
                 ELSE due[c] + (reward * cs.trk[c].score * Unit) \div cs.pool.score]
    /\ active' = act
    /\ UNCHANGED <<satOf, worth, valSet, stkCache, phase, rounded>>

\* x/incentive rewards the oldest height with queued events: they move to its
\* trackers.
RewardHeight ==
    /\ phase = "block" /\ pending # <<>> /\ ~cs.err
    /\ pending' = Tail(pending)
    /\ satOf' = [fp \in Fps |-> [c \in Costakers |->
                    SatsUpdated(<<Head(pending)>>, fp, c)]]
    /\ UNCHANGED <<status, active, worth, valSet, stkCache, phase, cs, left, due, rounded>>

\* BeforeRewardWithdraw, called by WithdrawReward of x/incentive.  A costaker
\* without a tracker gets an error after the period was ended; when it is a
\* BTC staker that withdraws, the message goes on and keeps the new period.
BeforeRewardWithdraw(c) ==
    /\ phase = "block" /\ Spend("withdrawals")
    /\ cs' = IF cs.trk[c] = None THEN IncrementRewardsPeriod(cs)
             ELSE initializeCoStakerRwdTracker(Settle(cs, c), c)
    /\ UNCHANGED <<status, active, satOf, pending, worth, valSet, stkCache, phase, due, rounded>>

UpdateParams(ratio) ==
    /\ phase = "block" /\ Spend("updates")
    /\ ratio # cs.ratio
    /\ cs' = UpdateAllCostakersScore(cs, ratio)
    /\ UNCHANGED <<status, active, satOf, pending, worth, valSet, stkCache, phase, due, rounded>>

\* BeforeValidatorSlashed: every delegator of an active validator loses half
\* of its whole tokens, rounded down; x/staking then takes half of the value.
BeforeValidatorSlashed(s, v) ==
    FoldSet(LAMBDA c, acc : costakerModified(acc, c, 0, -(Tokens(worth[c][v]) \div 2)),
            s, Delegators(worth, v))

Slash(v) ==
    /\ phase = "block" /\ Spend("slashes")
    /\ Delegators(worth, v) # {}
    /\ cs' = IF v \in valSet THEN BeforeValidatorSlashed(cs, v) ELSE cs
    /\ worth' = [c \in Costakers |-> [worth[c] EXCEPT ![v] = @ \div 2]]
    /\ rounded' = [c \in Costakers |->
                      rounded[c] + (IF c \in Delegators(worth, v) THEN 2 ELSE 0)]
    /\ UNCHANGED <<status, active, satOf, pending, valSet, stkCache, phase, due>>

----------------------------------------------------------------------------
(* End of an epoch: x/epoching runs the queued staking messages, updates   *)
(* the validator set and calls the hooks, all in one block.  The state of  *)
(* x/staking and of the hooks that a message works on is a record          *)
(* [worth, cache, cs].                                                     *)

Staking == [worth |-> worth, cache |-> stkCache, cs |-> cs]

BeforeDelegationSharesModified(x, c, v) ==
    IF v \in valSet /\ x.worth[c][v] > 0
    THEN [x EXCEPT !.cache[c][v] = x.worth[c][v]] ELSE x

\* The change is taken against the cached value, zero if there is none; the
\* cache entry is removed in any case.
AfterDelegationModified(x, c, v) ==
    LET before == IF x.cache[c][v] = None THEN 0 ELSE x.cache[c][v]
        y      == [x EXCEPT !.cache[c][v] = None]
    IN  IF v \notin valSet THEN y
        ELSE [y EXCEPT !.cs =
                costakerModified(@, c, 0, TruncateDiff(x.worth[c][v] - before))]

\* Mutant: the cache entry stays.
BeforeDelegationRemovedKeepsCache(x, c, v) ==
    IF v \notin valSet THEN x
    ELSE [x EXCEPT !.cs = costakerModified(@, c, 0, -Tokens(x.worth[c][v]))]

BeforeDelegationRemoved(x, c, v) ==
    LET y == [x EXCEPT !.cache[c][v] = None]
        n == Tokens(x.worth[c][v])
    IN  IF v \notin valSet \/ n = 0 THEN y
        ELSE [y EXCEPT !.cs = costakerModified(@, c, 0, -n)]

\* Keeper.Delegate and Keeper.Unbond of x/staking, with their hooks.
DelegateTo(x, c, v, n) ==
    AfterDelegationModified(
        [BeforeDelegationSharesModified(x, c, v) EXCEPT !.worth[c][v] = @ + n * Frac], c, v)

Unbond(x, c, v, w) ==
    LET y == BeforeDelegationSharesModified(x, c, v)
    IN  IF w = x.worth[c][v]
        THEN [BeforeDelegationRemoved(y, c, v) EXCEPT !.worth[c][v] = 0]
        ELSE AfterDelegationModified([y EXCEPT !.worth[c][v] = @ - w], c, v)

\* BeforeEpochEnds; the validator set the hooks use until the block ends is
\* the one of the ending epoch.
EndEpoch ==
    /\ phase = "block" /\ Spend("epochs")
    /\ phase' = "epoch"
    /\ UNCHANGED <<status, active, satOf, pending, worth, valSet, stkCache, cs, due, rounded>>

\* A message that succeeds.
Executed(x) ==
    /\ phase = "epoch" /\ Spend("messages")
    /\ worth' = x.worth /\ stkCache' = x.cache /\ cs' = x.cs
    /\ UNCHANGED <<status, active, satOf, pending, valSet, phase, due>>

Delegate(c, v, n) == Executed(DelegateTo(Staking, c, v, n)) /\ UNCHANGED rounded

\* Part of a delegation, or all of it with its fraction of a token.
Withdrawable(c, v) ==
    {n * Frac : n \in {m \in Amounts : m * Frac < worth[c][v]}}
        \union (IF worth[c][v] > 0 THEN {worth[c][v]} ELSE {})

Undelegate(c, v, w) ==
    /\ Executed(Unbond(Staking, c, v, w))
    /\ rounded' = [rounded EXCEPT ![c] = @ + (IF w % Frac = 0 THEN 0 ELSE 1)]

\* The whole tokens that Unbond returns are delegated again.
BeginRedelegate(c, v, u, w) ==
    /\ Tokens(w) > 0
    /\ Executed(DelegateTo(Unbond(Staking, c, v, w), c, u, Tokens(w)))
    /\ rounded' = [rounded EXCEPT ![c] = @ + (IF w % Frac = 0 THEN 0 ELSE 1)]

\* A message that fails in Unbond for lack of shares: the state of x/staking
\* is rolled back, the cache in memory is not.
FailedUndelegate(c, v) ==
    /\ phase = "epoch" /\ Spend("messages")
    /\ worth[c][v] > 0
    /\ stkCache' = BeforeDelegationSharesModified(Staking, c, v).cache
    /\ UNCHANGED <<status, active, satOf, pending, worth, valSet, phase, cs, due, rounded>>

\* addBabyForDelegators and removeBabyForDelegators.
BabyForDelegators(s, vs, sign) ==
    FoldSet(LAMBDA p, acc :
                IF worth[p[1]][p[2]] = 0 THEN acc
                ELSE costakerModified(acc, p[1], 0, sign * Tokens(worth[p[1]][p[2]])),
            s, Costakers \X vs)

\* AfterEpochEnds with the new validator set, then EndBlock of costaking,
\* which clears the cache.
AfterEpochEnds(new) ==
    /\ phase = "epoch"
    /\ new # {} /\ \A v \in new : \E c \in Costakers : worth[c][v] >= Frac
    /\ cs' = BabyForDelegators(BabyForDelegators(cs, new \ valSet, 1), valSet \ new, -1)
    /\ valSet' = new
    /\ stkCache' = NoCache
    /\ phase' = "block"
    /\ rounded' = [c \in Costakers |-> rounded[c] +
          Cardinality({v \in (new \ valSet) \union (valSet \ new) : worth[c][v] % Frac # 0})]
    /\ UNCHANGED <<status, active, satOf, pending, worth, left, due>>

Next ==
    \/ \E reward \in Rewards, activated, unbonded \in SUBSET Delegations,
          act \in SUBSET Fps : BeginBlock(reward, activated, unbonded, act)
    \/ RewardHeight
    \/ \E c \in Costakers : BeforeRewardWithdraw(c)
    \/ \E ratio \in Ratios : UpdateParams(ratio)
    \/ \E v \in Vals : Slash(v)
    \/ EndEpoch
    \/ \E c \in Costakers, v \in Vals :
          \/ \E n \in Amounts : Delegate(c, v, n)
          \/ \E w \in Withdrawable(c, v) : Undelegate(c, v, w)
          \/ \E w \in Withdrawable(c, v), u \in Vals \ {v} : BeginRedelegate(c, v, u, w)
          \/ FailedUndelegate(c, v)
    \/ \E new \in SUBSET Vals : AfterEpochEnds(new)

Spec == Init /\ [][Next]_vars

----------------------------------------------------------------------------
(* Properties *)

\* The state is well typed, no tracker starts in a period that is still running,
\* and no hook of x/costaking returns an error: satoshis and the total score never
\* become negative and the module account always holds what is paid.  An
\* error would halt the chain in BeginBlock (x/finality panics).
HooksNeverFail == TypeOK /\ ~cs.err

\* The ActiveSatoshis of every costaker are the satoshis of its active
\* delegations at the providers that are active now, however delegations and
\* providers changed in one block and however far x/incentive lags behind.
SatsOfActiveProviders ==
    ~cs.err => \A c \in Costakers :
        (IF cs.trk[c] = None THEN 0 ELSE cs.trk[c].sats)
            = MapThenSumSet(LAMBDA fp : StakeOf(status, fp, c), active)

\* The ActiveBaby of every costaker is what its delegations at the validators
\* of the epoch are worth, up to a token for each rounding of a fraction left
\* by slashing; without slashing it is exact.
BabyOfActiveValidators ==
    ~cs.err => \A c \in Costakers :
        LET baby  == IF cs.trk[c] = None THEN 0 ELSE cs.trk[c].baby * Frac
            stake == MapThenSumSet(LAMBDA v : worth[c][v], valSet)
        IN  /\ baby - stake <= rounded[c] * Frac
            /\ stake - baby <= rounded[c] * Frac

\* The score of every costaker is the one of its amounts under the present
\* ratio, and the pool divides its rewards by the sum of the scores.
ScoresAddUp ==
    LET known == {c \in Costakers : cs.trk[c] # None}
    IN  /\ \A c \in known : cs.trk[c].score =
              CalculateScore(cs.ratio, cs.trk[c].baby, cs.trk[c].sats)
        /\ cs.pool.score = MapThenSumSet(LAMBDA c : cs.trk[c].score, known)

\* What the costaker's next payment would be.
Claimable(c) == CalculateCostakerRewards(IncrementRewardsPeriod(cs), c, cs.pool.period)

\* Costakers are paid their part of every block's rewards by the scores at
\* that block: never more, less by under a coin per payment, and the module
\* account holds all that is still owed.
CostakersPaid ==
    /\ \A c \in Costakers :
          LET got == Unit * (cs.coins[c] + Claimable(c))
          IN  got <= due[c] /\ due[c] < got + Unit * (cs.paid[c] + 2)
    /\ cs.balance >= MapThenSumSet(Claimable, Costakers)
============================================================================
