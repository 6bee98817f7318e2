------------------------------ MODULE Epoching ------------------------------
(***************************************************************************)
(* x/epoching with the registration of x/checkpointing: epochs, the queue  *)
(* of staking messages that waits for the end of the epoch, the locked     *)
(* funds of that queue, the validator set of an epoch, and unbonding that  *)
(* completes when the checkpoint of its epoch is finalized.                *)
(*                                                                         *)
(* The Cosmos SDK's x/staking and x/bank and CometBFT are external: they   *)
(* are modelled by what the code under src/ relies on. Every message moves *)
(* one unit of the staking token, a validator's power is its tokens, the   *)
(* time of a block is its height, and slashing jails but burns nothing.    *)
(* Epoch 0 is the genesis block alone.                                     *)
(***************************************************************************)
EXTENDS Integers, FiniteSetsExt, SequencesExt

CONSTANTS
    Vals,            \* the operators that are or may become validators
    Genesis,         \* those whose gentx bonded them in the genesis block
    Dels,            \* the delegators that are not operators
    InitBalance,     \* the liquid tokens of every account at genesis
    Intervals,       \* the values of params.EpochInterval, the least one at genesis
    UnbondingTimes,  \* the values of the staking module's UnbondingTime
    Slashable,       \* the validators that may be slashed and jailed
    Senders,         \* the accounts that submit messages
    Kinds,           \* the kinds of message they submit
    MaxHeight,       \* bound: the last height
    MaxQueue         \* bound: the messages queued in one epoch

ASSUME EpochingAssumption ==
    /\ IsFiniteSet(Vals) /\ IsFiniteSet(Dels) /\ Vals \cap Dels = {}
    /\ Genesis # {} /\ Genesis \subseteq Vals
    /\ Slashable \subseteq Vals /\ Senders \subseteq Vals \cup Dels
    /\ InitBalance \in Nat /\ MaxHeight \in Nat /\ MaxQueue \in Nat
    /\ Intervals # {} /\ Intervals \subseteq Nat /\ \A i \in Intervals : i >= 2
    /\ UnbondingTimes # {} /\ UnbondingTimes \subseteq Nat

VARIABLES
    height,    \* the height of the block that is executed, or was last executed
    phase,     \* "txs" while the transactions of the block run, "ended" after EndBlock
    interval,  \* params.EpochInterval
    epochs,    \* the epoch info store
    queue,     \* the messages of the current epoch, in order
    valSet,    \* the validator set stored at the beginning of the current epoch
    slashed,   \* the slashed validators of the current epoch
    bls,       \* the operators with a registered BLS key
    stk,       \* the state of x/staking and x/bank, see Staking
    final,     \* the last epoch whose checkpoint is finalized
    comet      \* CometBFT's validator sets for this height and the next two

vars == <<height, phase, interval, epochs, queue, valSet, slashed, bls, stk,
          final, comet>>

Accounts == Vals \cup Dels
NoVal == "none"
None == -1

-----------------------------------------------------------------------------
(* Epochs: types/epoching.go and keeper/epochs.go. *)

NewEpoch(i, h) == [interval |-> i, first |-> h, lastTime |-> None,
                   sealerApp |-> None, sealerBlock |-> None]

\* GetEpoch: the last record of the store.
Current == Max(DOMAIN epochs)

GetLastBlockHeight(e) ==
    IF e = 0 THEN 0 ELSE epochs[e].first + epochs[e].interval - 1

IsLastBlock(e, h) == h = GetLastBlockHeight(e)

IsFirstBlockOfNextEpoch(e, h) ==
    IF e = 0 THEN h = 1 ELSE h = epochs[e].first + epochs[e].interval

\* The epoch of a height according to the store.
EpochOf(h) == Max({e \in DOMAIN epochs : epochs[e].first <= h})

-----------------------------------------------------------------------------
(* x/staking and x/bank (external). A validator that left the bonded set   *)
(* has `unbondAt`, the height and the time from which it is unbonded. An   *)
(* entry is an unbonding delegation, or a redelegation to dst.             *)

BondState == {"NONE", "CREATED", "BONDED", "UNBONDING", "UNBONDED", "REMOVED"}

Staking ==
    [bal        : [Accounts -> Nat],
     pool       : Nat,                  \* the delegate pool of x/epoching
     stake      : [Accounts -> [Vals -> Nat]],
     status     : [Vals -> {"none", "unbonded", "unbonding", "bonded"}],
     jailed     : SUBSET Vals,
     unbondAt   : [Vals -> [height : Nat, time : Nat]],
     entries    : SUBSET [del : Accounts, src : Vals, dst : Vals \cup {NoVal},
                          height : Nat, time : Nat, amount : Nat],
     lastPower  : [Vals -> Nat],
     unbondingTime : UnbondingTimes,
     life       : [Vals -> BondState]]  \* the last state the life cycle records

Exists(s, v) == s.status[v] # "none"
Tokens(s, v) == MapThenSumSet(LAMBDA a : s.stake[a][v], Accounts)

\* The minimum self delegation is one unit.
JailIfBelowMin(s, d, v) ==
    IF d = v /\ s.stake[d][v] = 0 THEN [s EXCEPT !.jailed = @ \cup {v}] ELSE s

\* A validator that is unbonded and has no tokens is removed.
RemoveIfEmpty(s, v) ==
    IF s.status[v] = "unbonded" /\ Tokens(s, v) = 0
    THEN [s EXCEPT !.status[v] = "none", !.jailed = @ \ {v}, !.life[v] = "REMOVED"]
    ELSE s

AddEntry(s, new) ==
    LET same == {u \in s.entries : [u EXCEPT !.amount = new.amount] = new}
    IN [s EXCEPT !.entries = (@ \ same) \cup
          {[new EXCEPT !.amount = @ + MapThenSumSet(LAMBDA u : u.amount, same)]}]

Fails(s) == [ok |-> FALSE, s |-> s]
Succeeds(s) == [ok |-> TRUE, s |-> s]

StkCreateValidator(s, v) ==
    IF Exists(s, v) \/ s.bal[v] = 0 THEN Fails(s)
    ELSE Succeeds([s EXCEPT !.status[v] = "unbonded", !.bal[v] = @ - 1,
                            !.stake[v][v] = @ + 1, !.life[v] = "CREATED"])

StkDelegate(s, d, v) ==
    IF ~Exists(s, v) \/ s.bal[d] = 0 THEN Fails(s)
    ELSE Succeeds([s EXCEPT !.bal[d] = @ - 1, !.stake[d][v] = @ + 1])

StkUndelegate(s, d, v, h) ==
    IF s.stake[d][v] = 0 THEN Fails(s)
    ELSE LET t == JailIfBelowMin([s EXCEPT !.stake[d][v] = @ - 1], d, v)
         IN Succeeds(AddEntry(RemoveIfEmpty(t, v),
                [del |-> d, src |-> v, dst |-> NoVal, height |-> h,
                 time |-> h + s.unbondingTime, amount |-> 1]))

ReceivesRedelegation(s, d, v) == \E u \in s.entries : u.del = d /\ u.dst = v

\* A redelegation is complete at once when its source is unbonded, and matures
\* with its source when that is unbonding; otherwise it waits for the unbonding time.
StkBeginRedelegate(s, d, v, w, h) ==
    IF v = w \/ s.stake[d][v] = 0 \/ ~Exists(s, w) \/ ReceivesRedelegation(s, d, v)
    THEN Fails(s)
    ELSE LET t == RemoveIfEmpty(JailIfBelowMin(
                    [s EXCEPT !.stake[d] = [@ EXCEPT ![v] = @ - 1, ![w] = @ + 1]], d, v), v)
             at == IF t.status[v] = "unbonding" THEN s.unbondAt[v]
                   ELSE [height |-> h, time |-> h + s.unbondingTime]
         IN Succeeds(IF t.status[v] = "unbonded" THEN t
                     ELSE AddEntry(t, [del |-> d, src |-> v, dst |-> w,
                            height |-> at.height, time |-> at.time, amount |-> 1]))

StkCancelUnbondingDelegation(s, d, v, created, h) ==
    LET found == {u \in s.entries : u.del = d /\ u.src = v /\ u.dst = NoVal
                                      /\ u.height = created /\ u.time >= h}
    IN IF ~Exists(s, v) \/ v \in s.jailed \/ found = {} THEN Fails(s)
       ELSE LET u == CHOOSE u \in found : TRUE
                rest == IF u.amount = 1 THEN {} ELSE {[u EXCEPT !.amount = @ - 1]}
            IN Succeeds([s EXCEPT !.stake[d][v] = @ + 1,
                                  !.entries = (@ \ {u}) \cup rest])

\* ApplyAndReturnValidatorSetUpdates: every validator that has tokens and is
\* not jailed is bonded (MaxValidators is not reached), the others start to unbond.
StkApplyUpdates(s, h) ==
    LET in == {v \in Vals : Exists(s, v) /\ v \notin s.jailed /\ Tokens(s, v) > 0}
        out == {v \in Vals : s.status[v] = "bonded"} \ in
    IN [s EXCEPT
          !.status = [v \in Vals |-> IF v \in in THEN "bonded"
                                     ELSE IF v \in out THEN "unbonding" ELSE @[v]],
          !.unbondAt = [v \in Vals |->
             IF v \in out THEN [height |-> h, time |-> h + s.unbondingTime] ELSE @[v]],
          !.lastPower = [v \in Vals |-> IF v \in in THEN Tokens(s, v) ELSE 0],
          !.life = [v \in Vals |->
             IF v \in in /\ s.status[v] # "bonded" THEN "BONDED"
             ELSE IF v \in out THEN "UNBONDING" ELSE @[v]]]

-----------------------------------------------------------------------------
(* The queue and its funds: epoch_msg_queue.go, delegation_pool.go. *)

\* extractAddrAndCoinsFromMsg: the messages that lock funds.
Locks(m) == m.kind \in {"delegate", "create"}

LockFunds(s, m) == IF Locks(m) THEN [s EXCEPT !.bal[m.del] = @ - 1, !.pool = @ + 1] ELSE s

UnlockFunds(s, m) ==
    IF ~Locks(m) THEN Succeeds(s)
    ELSE IF s.pool = 0 THEN Fails(s)
    ELSE Succeeds([s EXCEPT !.bal[m.del] = @ + 1, !.pool = @ - 1])

\* runUnwrappedMsg: what a queued message does in its cached context.
HandleQueuedMsg(s, m, h) ==
    CASE m.kind = "create"     -> StkCreateValidator(s, m.val)
      [] m.kind = "delegate"   -> StkDelegate(s, m.del, m.val)
      [] m.kind = "undelegate" -> StkUndelegate(s, m.del, m.val, h)
      [] m.kind = "redelegate" -> StkBeginRedelegate(s, m.del, m.val, m.dst, h)
      [] m.kind = "cancel"     -> StkCancelUnbondingDelegation(s, m.del, m.val, m.arg, h)
      [] m.kind = "params"     -> Succeeds([s EXCEPT !.unbondingTime = m.arg])
      [] m.kind = "edit"       -> IF Exists(s, m.val) THEN Succeeds(s) ELSE Fails(s)

\* Mutant: unlocking is undone with the message that fails.
RunQueuedMsgAtomic(s, m, h) ==
    LET u == UnlockFunds(s, m)
    IN IF ~u.ok \/ ~HandleQueuedMsg(u.s, m, h).ok THEN s ELSE HandleQueuedMsg(u.s, m, h).s

\* One turn of the loop of EndBlocker. A message whose funds cannot be unlocked
\* is skipped; one that fails leaves what unlocking did.
RunQueuedMsg(s, m, h) ==
    LET u == UnlockFunds(s, m)
    IN IF ~u.ok THEN s ELSE HandleQueuedMsg(u.s, m, h).s

RunQueue(s, q, h) == FoldLeft(LAMBDA t, m : RunQueuedMsg(t, m, h), s, q)

-----------------------------------------------------------------------------
(* The genesis block: gentxs create the validators, nothing is queued. *)

GenesisPower == [v \in Vals |-> IF v \in Genesis THEN 1 ELSE 0]

Init ==
    /\ height = 0 /\ phase = "ended"
    /\ interval = Min(Intervals)
    /\ epochs = [e \in {0} |-> [NewEpoch(1, 0) EXCEPT !.lastTime = 0]]
    /\ queue = <<>>
    /\ valSet = GenesisPower
    /\ slashed = [set |-> {}, power |-> 0]
    /\ bls = Genesis
    /\ stk = [bal |-> [a \in Accounts |-> InitBalance], pool |-> 0,
              stake |-> [a \in Accounts |-> [v \in Vals |->
                            IF a = v /\ v \in Genesis THEN 1 ELSE 0]],
              status |-> [v \in Vals |-> IF v \in Genesis THEN "bonded" ELSE "none"],
              jailed |-> {},
              unbondAt |-> [v \in Vals |-> [height |-> 0, time |-> 0]],
              entries |-> {},
              lastPower |-> GenesisPower,
              unbondingTime |-> Min(UnbondingTimes),
              life |-> [v \in Vals |-> IF v \in Genesis THEN "BONDED" ELSE "NONE"]]
    /\ final = 0
    /\ comet = [now |-> GenesisPower, next |-> GenesisPower, later |-> GenesisPower]

-----------------------------------------------------------------------------
(* BeginBlock: x/slashing and x/evidence run before x/epoching. *)

\* BeforeValidatorSlashed and AddSlashedValidator: a validator that is not in
\* the set of the epoch is not counted, one that is slashed again is.
AddSlashedValidator(sl, v) ==
    IF valSet[v] = 0 THEN sl ELSE [set |-> sl.set \cup {v}, power |-> sl.power + valSet[v]]

Slash(v) == /\ v \in Slashable \ stk.jailed
            /\ stk.status[v] \in {"bonded", "unbonding"}

\* Mutant: the AppHash is recorded after the epoch is incremented.
IncEpochFirst(h) ==
    LET e == Current
    IN [x \in 0 .. e + 1 |-> IF x = e + 1 THEN [NewEpoch(interval, h) EXCEPT !.sealerApp = h - 1]
                             ELSE epochs[x]]

\* The new epoch takes the interval of the parameters, and the sealer AppHash of
\* the old one is that of the state after its last block.
IncEpoch(h) ==
    LET e == Current
    IN [x \in 0 .. e + 1 |-> CASE x = e + 1 -> NewEpoch(interval, h)
                               [] x = e -> [epochs[e] EXCEPT !.sealerApp = h - 1]
                               [] OTHER -> epochs[x]]

\* BeginBlocker decides on the epoch it read before IncEpoch.
RecordSealerBlockHash(h) ==
    IF IsLastBlock(Current, h) THEN [epochs EXCEPT ![Current].sealerBlock = h] ELSE epochs

BeginBlock(S) ==
    LET h == height + 1
        new == IsFirstBlockOfNextEpoch(Current, h)
    IN /\ phase = "ended" /\ height < MaxHeight
       /\ \A v \in S : Slash(v)
       /\ height' = h /\ phase' = "txs"
       /\ stk' = [stk EXCEPT !.jailed = @ \cup S]
       /\ epochs' = IF new THEN IncEpoch(h) ELSE RecordSealerBlockHash(h)
       /\ queue' = IF new THEN <<>> ELSE queue
       /\ valSet' = IF new THEN stk.lastPower ELSE valSet
       /\ slashed' = IF new THEN [set |-> {}, power |-> 0]
                     ELSE FoldSet(LAMBDA v, sl : AddSlashedValidator(sl, v), slashed, S)
       /\ comet' = [now |-> comet.next, next |-> comet.later, later |-> comet.later]
       /\ UNCHANGED <<interval, bls, final>>

-----------------------------------------------------------------------------
(* Transactions: msg_server.go of x/epoching and of x/checkpointing. *)

Msg(kind, d, v, w, x) == [kind |-> kind, del |-> d, val |-> v, dst |-> w, arg |-> x]

EnqueueMsg(m) ==
    /\ phase = "txs" /\ m.kind \in Kinds /\ Len(queue) < MaxQueue
    /\ queue' = Append(queue, m)
    /\ stk' = LockFunds(stk, m)
    /\ UNCHANGED <<height, phase, interval, epochs, valSet, slashed, final, comet>>

\* The balance has to be above the self delegation of one unit.
CheckMsgCreateValidator(v) == ~Exists(stk, v) /\ stk.bal[v] > 1

\* An operator that was removed may only register the key it had.
CreateRegistration(v) == bls' = bls \cup {v}

\* The BLS key is registered now, the validator is created when the epoch ends.
WrappedCreateValidator(v) ==
    /\ CheckMsgCreateValidator(v)
    /\ CreateRegistration(v)
    /\ EnqueueMsg(Msg("create", v, v, NoVal, 0))

WrappedDelegate(d, v) ==
    /\ Exists(stk, v) /\ stk.bal[d] >= 1
    /\ EnqueueMsg(Msg("delegate", d, v, NoVal, 0)) /\ UNCHANGED bls

WrappedUndelegate(d, v) ==
    /\ stk.stake[d][v] >= 1
    /\ EnqueueMsg(Msg("undelegate", d, v, NoVal, 0)) /\ UNCHANGED bls

WrappedBeginRedelegate(d, v, w) ==
    /\ stk.stake[d][v] >= 1 /\ ~ReceivesRedelegation(stk, d, v)
    /\ EnqueueMsg(Msg("redelegate", d, v, w, 0)) /\ UNCHANGED bls

\* Whether the entry exists is only found out when the message is executed.
WrappedCancelUnbondingDelegation(d, v, created) ==
    /\ created > 0
    /\ EnqueueMsg(Msg("cancel", d, v, NoVal, created)) /\ UNCHANGED bls

WrappedEditValidator(v) ==
    /\ Exists(stk, v)
    /\ EnqueueMsg(Msg("edit", v, v, NoVal, 0)) /\ UNCHANGED bls

WrappedStakingUpdateParams(t) ==
    EnqueueMsg(Msg("params", NoVal, NoVal, NoVal, t)) /\ UNCHANGED bls

UpdateParams(i) ==
    /\ phase = "txs" /\ i # interval
    /\ interval' = i
    /\ UNCHANGED <<height, phase, epochs, queue, valSet, slashed, bls, stk, final, comet>>

\* MsgUnjail of x/slashing (external): it is not queued.
Unjail(v) ==
    /\ phase = "txs" /\ v \in stk.jailed /\ Exists(stk, v) /\ stk.stake[v][v] >= 1
    /\ stk' = [stk EXCEPT !.jailed = @ \ {v}]
    /\ UNCHANGED <<height, phase, interval, epochs, queue, valSet, slashed, bls, final, comet>>

-----------------------------------------------------------------------------
(* EndBlock: x/epoching, then x/btccheckpoint, whose finalized checkpoints *)
(* reach x/epoching through AfterRawCheckpointFinalized.                   *)

\* getAllMatureValidators asks for the time of the current block.
RecordedUnbonded(s) ==
    {v \in Vals : s.status[v] = "unbonding" /\ s.unbondAt[v].time <= height}

\* Mutant: the time of the current block decides.
FinalizedTimeNow(s, n) == height

\* The last block of the finalized epoch, moved by the unbonding time.
FinalizedTime(s, n) == epochs[n].lastTime + s.unbondingTime

CompleteUnbonding(s, t) ==
    LET done == {u \in s.entries : u.time <= t}
        paid(a) == MapThenSumSet(LAMBDA u : u.amount,
                                 {u \in done : u.del = a /\ u.dst = NoVal})
    IN [s EXCEPT !.bal = [a \in Accounts |-> @[a] + paid(a)], !.entries = @ \ done]

UnbondAllMatureValidators(s, t) ==
    LET done == {v \in Vals : s.status[v] = "unbonding" /\ s.unbondAt[v].time <= t}
    IN FoldSet(LAMBDA v, r : RemoveIfEmpty([r EXCEPT !.status[v] = "unbonded"], v), s, done)

\* When several epochs are finalized in one block the hook runs for each of
\* them; their times increase, so the last one covers the others.
ApplyMatureUnbonding(s, n) ==
    LET t == FinalizedTime(s, n)
        rec == RecordedUnbonded(s)
        u == UnbondAllMatureValidators(s, t)
        r == [u EXCEPT !.life = [v \in Vals |-> IF v \in rec THEN "UNBONDED" ELSE @[v]]]
    IN CompleteUnbonding(r, t)

EndOfEpoch(s) == StkApplyUpdates(RunQueue(s, queue, height), height)

\* Mutant: x/staking updates the validators in every block.
EndBlockWithStaking(n) ==
    LET last == IsLastBlock(Current, height)
        s == IF last THEN EndOfEpoch(stk) ELSE StkApplyUpdates(stk, height)
    IN /\ phase = "txs"
       /\ phase' = "ended"
       /\ epochs' = IF last THEN [epochs EXCEPT ![Current].lastTime = height] ELSE epochs
       /\ stk' = IF n > final THEN ApplyMatureUnbonding(s, n) ELSE s
       /\ comet' = [comet EXCEPT !.later = s.lastPower]
       /\ final' = n
       /\ UNCHANGED <<height, interval, queue, valSet, slashed, bls>>

EndBlock(n) ==
    LET last == IsLastBlock(Current, height)
        s == IF last THEN EndOfEpoch(stk) ELSE stk
    IN /\ phase = "txs"
       /\ phase' = "ended"
       /\ epochs' = IF last THEN [epochs EXCEPT ![Current].lastTime = height] ELSE epochs
       /\ stk' = IF n > final THEN ApplyMatureUnbonding(s, n) ELSE s
       /\ comet' = IF last THEN [comet EXCEPT !.later = s.lastPower] ELSE comet
       /\ final' = n
       /\ UNCHANGED <<height, interval, queue, valSet, slashed, bls>>

Next ==
    \/ \E S \in {{}} \cup {{v} : v \in Slashable} : BeginBlock(S)
    \/ \E v \in Vals \cap Senders : WrappedCreateValidator(v) \/ WrappedEditValidator(v)
    \/ \E v \in Vals : Unjail(v)
    \/ \E d \in Senders, v \in Vals : WrappedDelegate(d, v) \/ WrappedUndelegate(d, v)
    \/ \E d \in Senders, v, w \in Vals : WrappedBeginRedelegate(d, v, w)
    \/ \E u \in stk.entries : WrappedCancelUnbondingDelegation(u.del, u.src, u.height)
    \/ \E t \in UnbondingTimes : WrappedStakingUpdateParams(t)
    \/ \E i \in Intervals : UpdateParams(i)
    \/ \E n \in {final} \cup (final + 1 .. Current - 1) : EndBlock(n)

Spec == Init /\ [][Next]_vars

-----------------------------------------------------------------------------
(* Properties. *)

TypeOK ==
    /\ height \in 0 .. MaxHeight /\ phase \in {"txs", "ended"}
    /\ interval \in Intervals
    /\ DOMAIN epochs = 0 .. Current
    /\ Len(queue) <= MaxQueue
    /\ valSet \in [Vals -> Nat]
    /\ slashed \in [set : SUBSET Vals, power : Nat]
    /\ bls \subseteq Vals
    /\ stk \in Staking
    /\ final < Current \/ final = 0

\* The funds of the messages that wait for the end of the epoch (WrappedDelegate,
\* WrappedCreateValidator) are exactly what the delegate pool holds, and no message,
\* whether it succeeds or fails at the end of the epoch, creates or loses a token.
FundsAccounted ==
    LET ran == phase = "ended" /\ IsLastBlock(Current, height)
        waiting == SelectSeq(queue, Locks)
        staked == MapThenSumSet(LAMBDA v : Tokens(stk, v), Vals)
        unbonding == MapThenSumSet(LAMBDA u : u.amount, {u \in stk.entries : u.dst = NoVal})
        liquid == MapThenSumSet(LAMBDA a : stk.bal[a], Accounts)
    IN /\ stk.pool = IF ran THEN 0 ELSE Len(waiting)
       /\ liquid + stk.pool + staked + unbonding
            = InitBalance * Cardinality(Accounts) + Cardinality(Genesis)

\* The epochs of the store follow each other without a gap, those before the
\* current one are sealed by their own last block, the current one is not sealed.
Tiled ==
    /\ \A e \in DOMAIN epochs \ {0} :
         /\ epochs[e].first = GetLastBlockHeight(e - 1) + 1
         /\ e < Current => /\ epochs[e].sealerApp = GetLastBlockHeight(e)
                           /\ epochs[e].sealerBlock = GetLastBlockHeight(e)
                           /\ epochs[e].lastTime = GetLastBlockHeight(e)
    /\ epochs[Current].sealerApp = None

\* The store is well typed; its epochs follow each other without a gap whatever
\* interval the parameters had, and every epoch before the current one has the
\* time, the block hash and the AppHash of its own last block (BeginBlocker,
\* EndBlocker, RecordSealerAppHashForPrevEpoch).
EpochsTile == TypeOK /\ Tiled

\* The validators that CometBFT asks to sign the last block of an epoch are the
\* validator set the epoch has stored, with the same powers, so the BLS signatures
\* in their vote extensions make a checkpoint of that epoch. The set is the bonded
\* set of x/staking as long as the epoch runs, and each of them has a BLS key
\* (InitValidatorBLSSet panics otherwise).
SignersAreValidators ==
    /\ height > 0 /\ IsLastBlock(Current, height) => comet.now = valSet
    /\ ~(phase = "ended" /\ IsLastBlock(Current, height)) => stk.lastPower = valSet
    /\ \A v \in Vals : valSet[v] > 0 => v \in bls

\* What waits for a checkpoint started in an epoch that is not finalized.
Waiting ==
    /\ \A u \in stk.entries : EpochOf(u.height) > final
    /\ \A v \in Vals : stk.status[v] = "unbonding" => EpochOf(stk.unbondAt[v].height) > final

\* Unbonding and redelegation wait for the checkpoint of their epoch: nothing that
\* started in a finalized epoch is still waiting, and what stops waiting had started
\* in a finalized epoch or was cancelled by its delegator (ApplyMatureUnbonding:
\* "becomes mature when its corresponding epoch and all previous epochs have been
\* checkpointed"), as long as the unbonding time of x/staking does not change.
UnbondingFollowsEpochs ==
    [][ /\ Waiting'
        /\ \A u \in stk.entries :
             \/ \E w \in stk'.entries : [u EXCEPT !.amount = w.amount] = w
             \/ EpochOf(u.height) <= final'
             \/ \E i \in DOMAIN queue : queue[i].kind = "cancel" /\ queue[i].arg = u.height]_vars
=============================================================================
