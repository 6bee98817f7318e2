----------------------------- MODULE Incentive -----------------------------
(***************************************************************************)
(* x/incentive: how the share of a block's fees and inflation reserved for *)
(* BTC staking reaches the finality providers and their BTC delegators.    *)
(*                                                                         *)
(* BeginBlock of height h puts that share into the gauges of h.  They are  *)
(* paid out when x/finality rewards h, which happens later, once h is      *)
(* finalized (HandleRewarding).  Delegations change in between, so the     *)
(* hooks that report activations and unbondings (AfterBtcDelegation...)    *)
(* only queue an event under the current height, and the reward of height  *)
(* h first applies the events up to h to the trackers.                     *)
(*                                                                         *)
(* The trackers pay delegators lazily.  The rewards of a provider's        *)
(* current period are turned into a cumulative amount per satoshi          *)
(* (historical rewards) whenever the period ends, and a delegation is paid *)
(* the difference between two periods when it changes or is withdrawn.     *)
(*                                                                         *)
(* Amounts are of one denomination.  OneDec stands for the 10^18 of        *)
(* math.LegacyDec and DecimalRewards for the 10^20 of the same name, both  *)
(* smaller so that rounding is visible at the sizes TLC explores.          *)
(***************************************************************************)
EXTENDS Integers, Sequences, FiniteSets, FiniteSetsExt, SequencesExt

CONSTANTS
    Fps,                \* finality providers
    Dels,               \* addresses of BTC stakers
    Delegations,        \* records [fp, del, sat, id], the BTC delegations
    Commission,         \* [Fps -> 0 .. OneDec], commission rates
    OneDec,             \* the number 1 as a decimal of fixed precision
    DecimalRewards,     \* scale of the rewards per satoshi
    BtcStakingPortion,  \* share of the fees for BTC staking, over OneDec
    FpPortion,          \* share of the fees paid to providers directly
    Fees,               \* amounts the fee collector may hold at BeginBlock
    MaxHeight,          \* bound on the chain's height
    MaxChanges,         \* bound on the changes of delegations in a block
    MaxWithdrawals,     \* bound on the number of WithdrawReward messages
    None

ASSUME PortionsAssumption == BtcStakingPortion + FpPortion < OneDec

VARIABLES
    height,         \* height of the latest block
    status,         \* [Delegations -> "pending", "active", "unbonded"]
    caches,         \* voting power distribution caches, by height
    btcGauge,       \* BTC staking gauges, by height
    fpGauge,        \* gauges of the direct rewards of providers, by height
    events,         \* queued reward tracker events, by height
    lastProcessed,  \* last height whose events were applied
    nextToReward,   \* next height HandleRewarding looks at
    rt,             \* the reward trackers and the stakers' reward gauges
    fpReward,       \* reward gauges of the providers
    withdrawn,      \* what each staker has withdrawn
    balance,        \* balance of the incentive module account
    withdrawals,    \* number of WithdrawReward messages so far
    due,            \* history: what each staker is due, see PaidAsStaked
    settled         \* history: payments of a delegation to its gauge

vars == <<height, status, caches, btcGauge, fpGauge, events, lastProcessed,
          nextToReward, rt, fpReward, withdrawn, balance, withdrawals, due,
          settled>>

Heights == 1 .. MaxHeight

----------------------------------------------------------------------------
(* Stake *)

\* Active satoshis of a delegator at a provider, from the delegations that
\* the power distribution counts.
StakeOf(st, fp, del) ==
    MapThenSumSet(LAMBDA d : d.sat,
                  {d \in Delegations : d.fp = fp /\ d.del = del /\ st[d] = "active"})

Stakes(st) == [fp \in Fps |-> [del \in Dels |-> StakeOf(st, fp, del)]]

\* TotalBondedSat of a provider in a distribution cache.
Bonded(stake, fp) == MapThenSumSet(LAMBDA del : stake[fp][del], Dels)

\* A common multiple of the sums of stake a provider can have: amounts due
\* are counted in units of 1/Unit coins, where shares are exact.
Unit == FoldSet(LAMBDA n, product : n * product, 1,
                1 .. MapThenSumSet(LAMBDA d : d.sat, Delegations))

----------------------------------------------------------------------------
(* Portions of coins *)

\* Gauge.GetCoinsPortion: the product is truncated to whole coins.
GetCoinsPortion(coins, portion) == (coins * portion) \div OneDec

\* LegacyDec.QuoTruncate of two integers.
QuoTruncate(a, b) == (a * OneDec) \div b

----------------------------------------------------------------------------
(* Reward trackers.  A state s of them is a record:                        *)
(*   current[fp]       None or [rewards, period, sat]                      *)
(*   hist[fp]          cumulative rewards per satoshi, the one of period p *)
(*                     at index p + 1                                      *)
(*   tracker[fp][del]  None or [start, sat]                                *)
(*   coins[del]        coins in the staker's reward gauge                  *)
(*   err               an error was returned, on which the caller panics   *)

initializeFinalityProvider(s, fp) ==
    [s EXCEPT !.hist[fp] = <<0>>,
              !.current[fp] = [rewards |-> 0, period |-> 1, sat |-> 0]]

\* The period IncrementFinalityProviderPeriod reports as ended.
EndedPeriod(s, fp) ==
    IF s.current[fp] = None THEN 1 ELSE s.current[fp].period

IncrementFinalityProviderPeriod(s, fp) ==
    IF s.current[fp] = None
    THEN initializeFinalityProvider(s, fp)
    ELSE LET cur    == s.current[fp]
             perSat == IF cur.sat = 0 THEN 0
                       ELSE (cur.rewards * DecimalRewards) \div cur.sat
         IN  [s EXCEPT !.hist[fp] = Append(@, @[cur.period] + perSat),
                       !.current[fp] = [rewards |-> 0, period |-> cur.period + 1,
                                        sat |-> cur.sat]]

CalculateBTCDelegationRewards(s, fp, del, endPeriod) ==
    LET t == s.tracker[fp][del]
    IN  IF t = None THEN 0
        ELSE IF t.sat = 0 THEN 0
        ELSE ((s.hist[fp][endPeriod + 1] - s.hist[fp][t.start + 1]) * t.sat)
                 \div DecimalRewards

CalculateBTCDelegationRewardsAndSendToGauge(s, fp, del, endPeriod) ==
    [s EXCEPT !.coins[del] =
        @ + CalculateBTCDelegationRewards(s, fp, del, endPeriod)]

\* addDelegationSat; the provider exists, its period was just incremented.
addDelegationSat(s, fp, del, sat) ==
    LET t == s.tracker[fp][del]
    IN  [s EXCEPT !.tracker[fp][del] =
                      IF t = None THEN [start |-> 0, sat |-> sat]
                      ELSE [t EXCEPT !.sat = @ + sat],
                  !.current[fp].sat = @ + sat]

\* subDelegationSat returns an error when the stake is not there.
subDelegationSat(s, fp, del, sat) ==
    LET t == s.tracker[fp][del]
    IN  IF t = None \/ s.current[fp].sat < sat THEN [s EXCEPT !.err = TRUE]
        ELSE IF t.sat < sat THEN [s EXCEPT !.err = TRUE]
        ELSE [s EXCEPT !.tracker[fp][del].sat = @ - sat,
                       !.current[fp].sat = @ - sat]

initializeBTCDelegation(s, fp, del) ==
    IF s.tracker[fp][del] = None THEN [s EXCEPT !.err = TRUE]
    ELSE [s EXCEPT !.tracker[fp][del].start = s.current[fp].period - 1]

\* The first half of btcDelegationModifiedWithPreInitDel: end the period and
\* pay the delegation.
Settle(s, fp, del) ==
    CalculateBTCDelegationRewardsAndSendToGauge(
        IncrementFinalityProviderPeriod(s, fp), fp, del, EndedPeriod(s, fp))

\* Mutant: the stake is added before the period ends.
ActivatedAddFirst(s, fp, del, sat) ==
    LET init == IF s.current[fp] = None THEN initializeFinalityProvider(s, fp) ELSE s
    IN  initializeBTCDelegation(Settle(addDelegationSat(init, fp, del, sat), fp, del), fp, del)

BtcDelegationActivated(s, fp, del, sat) ==
    initializeBTCDelegation(addDelegationSat(Settle(s, fp, del), fp, del, sat), fp, del)

BtcDelegationUnbonded(s, fp, del, sat) ==
    LET sub == subDelegationSat(Settle(s, fp, del), fp, del, sat)
    IN  IF sub.err THEN sub ELSE initializeBTCDelegation(sub, fp, del)

\* Mutant: a withdrawal pays and leaves the delegation's start where it was.
ModifiedWithoutStart(s, fp, del) == Settle(s, fp, del)

btcDelegationModified(s, fp, del) ==
    initializeBTCDelegation(Settle(s, fp, del), fp, del)

\* The providers the delegator has a tracker with (iterBtcDelegationsByDelegator).
FpsOfDelegator(s, del) == {fp \in Fps : s.tracker[fp][del] # None}

sendAllBtcRewardsToGauge(s, del) ==
    FoldSet(LAMBDA fp, acc : btcDelegationModified(acc, fp, del), s,
            FpsOfDelegator(s, del))

----------------------------------------------------------------------------
(* Events *)

Event(kind, d) == [kind |-> kind, fp |-> d.fp, del |-> d.del, sat |-> d.sat]

\* Application of one queued event; nothing more happens after an error.
ProcessEvent(s, e) ==
    IF s.err THEN s
    ELSE IF e.kind = "activated"
         THEN BtcDelegationActivated(s, e.fp, e.del, e.sat)
         ELSE BtcDelegationUnbonded(s, e.fp, e.del, e.sat)

\* The events of the heights lastProcessed + 1 .. until, in their order.
QueuedUntil(until) ==
    FlattenSeq([i \in 1 .. (until - lastProcessed) |-> events[lastProcessed + i]])

ProcessRewardTrackerEvents(s, until) == FoldLeft(ProcessEvent, s, QueuedUntil(until))

\* Mutant: the hooks of the unbondings run first.
HookEventsUnbondedFirst(activated, unbonded) ==
    LET Events(kind, ds) == [i \in 1 .. Len(ds) |-> Event(kind, ds[i])]
    IN  Events("unbonded", SetToSeq(unbonded)) \o Events("activated", SetToSeq(activated))

\* processHooksBTCDelegation: the hooks of all activations run before those
\* of the unbondings.
HookEvents(activated, unbonded) ==
    LET Events(kind, ds) == [i \in 1 .. Len(ds) |-> Event(kind, ds[i])]
    IN  Events("activated", SetToSeq(activated)) \o Events("unbonded", SetToSeq(unbonded))

----------------------------------------------------------------------------
TypeOK ==
    /\ height \in 0 .. MaxHeight
    /\ status \in [Delegations -> {"pending", "active", "unbonded"}]
    /\ \A h \in Heights :
          caches[h] = None
          \/ caches[h].active \subseteq Fps
    /\ btcGauge \in [Heights -> Nat] /\ fpGauge \in [Heights -> Nat]
    /\ lastProcessed \in 0 .. height
    /\ nextToReward \in 1 .. height + 1
    /\ rt.coins \in [Dels -> Nat]
    /\ \A fp \in Fps :
          /\ \/ rt.current[fp] = None /\ rt.hist[fp] = <<>>
             \/ /\ rt.current[fp] \in [rewards : Nat, period : Nat, sat : Nat]
                /\ Len(rt.hist[fp]) = rt.current[fp].period
          /\ \A del \in Dels :
                \/ rt.tracker[fp][del] = None
                \/ /\ rt.tracker[fp][del] \in [start : Nat, sat : Nat]
                   /\ rt.tracker[fp][del].start < rt.current[fp].period
    /\ fpReward \in [Fps -> Nat]
    /\ withdrawn \in [Dels -> Nat]
    /\ balance \in Nat

Init ==
    /\ height = 0
    /\ status = [d \in Delegations |-> "pending"]
    /\ caches = [h \in Heights |-> None]
    /\ btcGauge = [h \in Heights |-> 0]
    /\ fpGauge = [h \in Heights |-> 0]
    /\ events = [h \in Heights |-> <<>>]
    /\ lastProcessed = 0
    /\ nextToReward = 1
    /\ rt = [current |-> [fp \in Fps |-> None],
             hist    |-> [fp \in Fps |-> <<>>],
             tracker |-> [fp \in Fps |-> [del \in Dels |-> None]],
             coins   |-> [del \in Dels |-> 0],
             err     |-> FALSE]
    /\ fpReward = [fp \in Fps |-> 0]
    /\ withdrawn = [del \in Dels |-> 0]
    /\ balance = 0
    /\ withdrawals = 0
    /\ due = [del \in Dels |-> 0]
    /\ settled = [del \in Dels |-> 0]

----------------------------------------------------------------------------
\* accumulateRewards: the gauges of the height are set and the coins move
\* from the fee collector to the module account.
accumulateRewards(h, btc, fpDirect) ==
    /\ btcGauge' = [btcGauge EXCEPT ![h] = btc]
    /\ fpGauge' = [fpGauge EXCEPT ![h] = fpDirect]
    /\ balance' = balance + btc + fpDirect

HandleCoinsInFeeCollector(h, fees) ==
    accumulateRewards(h, GetCoinsPortion(fees, BtcStakingPortion),
                         GetCoinsPortion(fees, FpPortion))

\* BeginBlock of the next height: the fees are intercepted, then x/finality
\* updates the power distribution with the delegations that became active or
\* unbonded (one may do both between two blocks) and calls the hooks.  Which
\* of the providers with stake are active is an input here (Finality models
\* how it is decided).
BeginBlock(fees, activated, unbonded, active) ==
    /\ height < MaxHeight /\ ~rt.err
    /\ Cardinality(activated) + Cardinality(unbonded) <= MaxChanges
    /\ \A d \in activated : status[d] = "pending"
    /\ \A d \in unbonded : status[d] = "active" \/ d \in activated
    /\ LET h  == height + 1
           st == [d \in Delegations |->
                     IF d \in unbonded THEN "unbonded"
                     ELSE IF d \in activated THEN "active" ELSE status[d]]
       IN  /\ \A fp \in active : Bonded(Stakes(st), fp) > 0
           /\ height' = h
           /\ HandleCoinsInFeeCollector(h, fees)
           /\ status' = st
           /\ caches' = [caches EXCEPT ![h] = [active |-> active, stake |-> Stakes(st)]]
           /\ events' = [events EXCEPT ![h] = HookEvents(activated, unbonded)]
    /\ UNCHANGED <<lastProcessed, nextToReward, rt, fpReward, withdrawn,
                   withdrawals, due, settled>>

\* What RewardBTCStaking gives a provider of the cache dc of height h: its
\* portion of the gauge by voting power among the voters, the commission, and
\* the portion of the direct gauge.
FpCoins(h, dc, voters, fp) ==
    LET total   == MapThenSumSet(LAMBDA v : Bonded(dc.stake, v), voters)
        portion == QuoTruncate(Bonded(dc.stake, fp), total)
        coins   == GetCoinsPortion(btcGauge[h], portion)
        comm    == GetCoinsPortion(coins, Commission[fp])
    IN  [own  |-> comm + GetCoinsPortion(fpGauge[h], portion),
         dels |-> coins - comm]

\* AddFinalityProviderRewardsForBtcDelegations for every voter; it fails for
\* a provider whose rewards were never initialized.
AddRewards(s, voters, dels) ==
    IF s.err \/ \E fp \in voters : s.current[fp] = None
    THEN [s EXCEPT !.err = TRUE]
    ELSE [s EXCEPT !.current = [fp \in Fps |->
            IF fp \in voters
            THEN [s.current[fp] EXCEPT !.rewards = @ + dels[fp]]
            ELSE s.current[fp]]]

\* RewardBTCStaking for a finalized height, in HandleRewarding: the events up
\* to the height are applied, the voters among the active providers share the
\* gauges, the gauges and the cache are removed.  Heights that had no active
\* provider are never finalized and are passed over.
RewardBTCStaking(h, voters) ==
    /\ ~rt.err
    /\ caches[h] # None
    /\ voters # {} /\ voters \subseteq caches[h].active
    /\ 3 * MapThenSumSet(LAMBDA fp : Bonded(caches[h].stake, fp), voters)
         > 2 * MapThenSumSet(LAMBDA fp : Bonded(caches[h].stake, fp), caches[h].active)
    /\ \A g \in nextToReward .. h - 1 : caches[g].active = {}
    /\ LET coins == [fp \in voters |-> FpCoins(h, caches[h], voters, fp)]
           dels  == [fp \in voters |-> coins[fp].dels]
           evs   == QueuedUntil(h)
       IN  /\ rt' = AddRewards(ProcessRewardTrackerEvents(rt, h), voters, dels)
           /\ fpReward' = [fp \in Fps |->
                 fpReward[fp] + (IF fp \in voters THEN coins[fp].own ELSE 0)]
           /\ due' = [del \in Dels |-> due[del] +
                 MapThenSumSet(LAMBDA fp :
                    (dels[fp] * caches[h].stake[fp][del] * Unit)
                        \div Bonded(caches[h].stake, fp), voters)]
           /\ settled' = [del \in Dels |-> settled[del] +
                 Len(SelectSeq(evs, LAMBDA e : e.del = del))]
    /\ lastProcessed' = h
    /\ nextToReward' = h + 1
    /\ events' = [g \in Heights |-> IF g <= h THEN <<>> ELSE events[g]]
    /\ btcGauge' = [btcGauge EXCEPT ![h] = 0]
    /\ fpGauge' = [fpGauge EXCEPT ![h] = 0]
    /\ caches' = [caches EXCEPT ![h] = None]
    /\ UNCHANGED <<height, status, withdrawn, balance, withdrawals>>

\* WithdrawReward of a BTC staker: everything its trackers owe it goes to its
\* gauge and the gauge is paid out.  The message fails, and changes nothing,
\* when no coin is paid; coins of the costaker gauge of the same address count.
WithdrawReward(del, costakerCoins) ==
    /\ withdrawals < MaxWithdrawals /\ ~rt.err
    /\ LET s == sendAllBtcRewardsToGauge(rt, del)
           n == s.coins[del] - withdrawn[del]
       IN  /\ n > 0 \/ costakerCoins
           /\ rt' = s
           /\ withdrawn' = [withdrawn EXCEPT ![del] = @ + n]
           /\ balance' = balance - n
           /\ settled' = [settled EXCEPT ![del] = @ + Cardinality(FpsOfDelegator(rt, del))]
    /\ withdrawals' = withdrawals + 1
    /\ UNCHANGED <<height, status, caches, btcGauge, fpGauge, events,
                   lastProcessed, nextToReward, fpReward, due>>

\* WithdrawReward of a finality provider.
WithdrawFpReward(fp) ==
    /\ withdrawals < MaxWithdrawals /\ ~rt.err
    /\ fpReward[fp] > 0
    /\ balance' = balance - fpReward[fp]
    /\ fpReward' = [fpReward EXCEPT ![fp] = 0]
    /\ withdrawals' = withdrawals + 1
    /\ UNCHANGED <<height, status, caches, btcGauge, fpGauge, events,
                   lastProcessed, nextToReward, rt, withdrawn, due, settled>>

Next ==
    \/ \E fees \in Fees, activated \in SUBSET Delegations,
          unbonded \in SUBSET Delegations, active \in SUBSET Fps :
          BeginBlock(fees, activated, unbonded, active)
    \/ \E h \in nextToReward .. height, voters \in SUBSET Fps :
          RewardBTCStaking(h, voters)
    \/ \E del \in Dels, costakerCoins \in BOOLEAN : WithdrawReward(del, costakerCoins)
    \/ \E fp \in Fps : WithdrawFpReward(fp)

Spec == Init /\ [][Next]_vars

----------------------------------------------------------------------------
(* Properties *)

\* What the trackers would add to the staker's gauge now.
Claimable(del) == sendAllBtcRewardsToGauge(rt, del).coins[del] - rt.coins[del]

\* The state is well typed, and no reward panics: when RewardBTCStaking applies the queued events, every
\* unbonding finds the stake its activation brought, and every voter it
\* rewards has been initialized by an activation.
RewardNeverPanics == TypeOK /\ ~rt.err

\* A staker is paid for the heights that were rewarded, by the stake it had
\* at each of them: what is in its gauge and what it can claim never exceeds
\* the sum over the rewarded heights of the delegators' share of its provider
\* times its part of the provider's stake at that height, and falls short of
\* it by less than a coin per payment to the gauge.  Queued events, period
\* ends, withdrawals and changes of stake in between make no difference.
PaidAsStaked ==
    \A del \in Dels :
        LET paid == Unit * (rt.coins[del] + Claimable(del))
            lost == Unit * (settled[del] + Cardinality(FpsOfDelegator(rt, del)) + 1)
        IN  paid <= due[del] /\ due[del] < paid + lost

\* The module account covers everything that can be withdrawn from it: the
\* gauges of heights not rewarded yet, the gauges of providers and stakers,
\* and what the trackers still owe, so no WithdrawReward lacks funds.
Solvent ==
    balance >= MapThenSumSet(LAMBDA h : btcGauge[h] + fpGauge[h], Heights)
               + MapThenSumSet(LAMBDA fp : fpReward[fp], Fps)
               + MapThenSumSet(LAMBDA del : rt.coins[del] + Claimable(del)
                                            - withdrawn[del], Dels)
============================================================================
