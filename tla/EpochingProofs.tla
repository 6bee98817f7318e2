--------------------------- MODULE EpochingProofs ---------------------------
(***************************************************************************)
(* Machine-checked proofs about module Epoching, for every sequence of     *)
(* epoch intervals and every staking message in between.                   *)
(***************************************************************************)
EXTENDS Epoching, Extrema, TLAPS

Record == [interval : Nat, first : Nat, lastTime : Int, sealerApp : Int, sealerBlock : Int]

LastOf(e) == epochs[e].first + epochs[e].interval - 1

\* What Tiled rests on: where the height is in epoch c, the current one, and
\* what the last block of it has recorded so far. An epoch needs two blocks at
\* least: BeginBlocker records the block hash of the last block only for the
\* epoch it read before IncEpoch.
InEpoch(c) ==
    /\ c \in Nat /\ DOMAIN epochs = 0..c
    /\ \A e \in 0..c : epochs[e] \in Record
    /\ \A e \in 1..c : epochs[e].interval >= 2
    /\ c >= 1 => epochs[1].first = 1
    /\ \A e \in 2..c : epochs[e].first = LastOf(e - 1) + 1
    /\ \A e \in 1..(c - 1) : /\ epochs[e].sealerApp = LastOf(e)
                             /\ epochs[e].sealerBlock = LastOf(e)
                             /\ epochs[e].lastTime = LastOf(e)
    /\ epochs[c].sealerApp = None
    /\ c = 0 => height = 0 /\ phase = "ended"
    /\ c >= 1 => epochs[c].first <= height /\ height <= LastOf(c)
    /\ c >= 1 /\ height = LastOf(c) => epochs[c].sealerBlock = height
    /\ c >= 1 /\ height = LastOf(c) /\ phase = "ended" => epochs[c].lastTime = height

IInv == /\ height \in Nat /\ interval \in Nat /\ interval >= 2
        /\ \E c \in Nat : InEpoch(c)

\* GetEpoch is the last record of the store.
LEMMA CurrentIs ==
    ASSUME NEW c \in Nat, DOMAIN epochs = 0..c
    PROVE  Current = c
<1> DEFINE S == 0..c
<1>1. S \in SUBSET Int /\ S # {} /\ c \in S /\ \A x \in S : x <= c
  OBVIOUS
<1>2. Max(S) \in S /\ \A y \in S : y <= Max(S)
  <2> HIDE DEF S
  <2> QED BY <1>1, MaxOfBounded
<1>3. Max(S) = c
  BY <1>1, <1>2
<1> QED BY <1>3 DEF Current

LEMMA InitIInv == Init => IInv
<1> SUFFICES ASSUME Init PROVE IInv
  OBVIOUS
<1>1. interval \in Nat /\ interval >= 2
  <2>1. Intervals \in SUBSET Int /\ Intervals # {} /\ \A i \in Intervals : 0 <= i
    BY EpochingAssumption
  <2>2. Min(Intervals) \in Intervals
    BY <2>1, MinOfBounded
  <2> QED BY <2>2, EpochingAssumption DEF Init
<1>2. InEpoch(0)
  BY DEF Init, InEpoch, NewEpoch, Record, None
<1> QED BY <1>1, <1>2 DEF Init, IInv

\* A step between BeginBlock and EndBlock leaves the epochs alone.
LEMMA KeepEpochs ==
    ASSUME IInv, UNCHANGED <<height, phase, epochs>>, interval' \in Nat, interval' >= 2
    PROVE  IInv'
BY DEF IInv, InEpoch, LastOf

\* Recording one field of an epoch keeps the others.
LEMMA SealerAppOnly ==
    ASSUME NEW r \in Record, NEW x \in Int, NEW s, s = [r EXCEPT !.sealerApp = x]
    PROVE  /\ s \in Record /\ s.sealerApp = x /\ s.first = r.first /\ s.interval = r.interval
           /\ s.sealerBlock = r.sealerBlock /\ s.lastTime = r.lastTime
BY DEF Record

LEMMA SealerBlockOnly ==
    ASSUME NEW r \in Record, NEW x \in Int, NEW s, s = [r EXCEPT !.sealerBlock = x]
    PROVE  /\ s \in Record /\ s.sealerBlock = x /\ s.first = r.first /\ s.interval = r.interval
           /\ s.sealerApp = r.sealerApp /\ s.lastTime = r.lastTime
BY DEF Record

LEMMA LastTimeOnly ==
    ASSUME NEW r \in Record, NEW x \in Int, NEW s, s = [r EXCEPT !.lastTime = x]
    PROVE  /\ s \in Record /\ s.lastTime = x /\ s.first = r.first /\ s.interval = r.interval
           /\ s.sealerApp = r.sealerApp /\ s.sealerBlock = r.sealerBlock
BY DEF Record

\* The first block of the next epoch.
LEMMA NewEpochIInv ==
    ASSUME IInv, NEW c \in Nat, InEpoch(c), phase = "ended",
           IsFirstBlockOfNextEpoch(c, height + 1),
           height' = height + 1, phase' = "txs", interval' = interval,
           epochs' = IncEpoch(height + 1)
    PROVE  IInv'
<1> DEFINE h == height + 1
<1>1. height \in Nat /\ interval \in Nat /\ interval >= 2 /\ None \in Int
  BY DEF IInv, None
<1>2. Current = c
  BY CurrentIs DEF InEpoch
<1>3. /\ DOMAIN epochs' = 0..(c + 1)
      /\ epochs'[c + 1] = NewEpoch(interval, h)
      /\ epochs'[c] = [epochs[c] EXCEPT !.sealerApp = height]
      /\ \A e \in 0..(c - 1) : epochs'[e] = epochs[e]
  <2>1. epochs' = [x \in 0..(c + 1) |-> CASE x = c + 1 -> NewEpoch(interval, h)
                                          [] x = c -> [epochs[c] EXCEPT !.sealerApp = h - 1]
                                          [] OTHER -> epochs[x]]
    BY <1>2 DEF IncEpoch
  <2>2. h - 1 = height
    BY <1>1
  <2> QED BY <2>1, <2>2
<1>4. /\ epochs'[c + 1] \in Record /\ epochs'[c + 1].interval = interval
      /\ epochs'[c + 1].first = h /\ epochs'[c + 1].sealerApp = None
  BY <1>1, <1>3 DEF NewEpoch, Record
<1>5. /\ epochs'[c] \in Record /\ epochs'[c].sealerApp = height
      /\ epochs'[c].interval = epochs[c].interval /\ epochs'[c].first = epochs[c].first
      /\ epochs'[c].sealerBlock = epochs[c].sealerBlock
      /\ epochs'[c].lastTime = epochs[c].lastTime
  <2>1. epochs[c] \in Record
    BY DEF InEpoch
  <2> QED BY <1>1, <1>3, <2>1, SealerAppOnly
<1>6. c >= 1 => /\ height = LastOf(c) /\ epochs[c].sealerBlock = height
                /\ epochs[c].lastTime = height
  <2>1. SUFFICES ASSUME c >= 1 PROVE height = LastOf(c)
    BY DEF InEpoch
  <2>2. epochs[c].first \in Nat /\ epochs[c].interval \in Nat
    BY DEF InEpoch, Record
  <2>3. height + 1 = epochs[c].first + epochs[c].interval
    BY <2>1 DEF IsFirstBlockOfNextEpoch
  <2> QED BY <1>1, <2>2, <2>3 DEF LastOf
<1>7. c = 0 => h = 1
  BY DEF InEpoch
<1>8. InEpoch(c + 1)'
  <2>1. \A e \in 0..(c + 1) : epochs'[e] \in Record
    <3>1. \A e \in 0..(c - 1) : epochs'[e] \in Record
      <4>1. \A e \in 0..(c - 1) : e \in 0..c
        OBVIOUS
      <4> QED BY <1>3, <4>1 DEF InEpoch
    <3> QED BY <1>4, <1>5, <3>1
  <2>2. ASSUME NEW e \in 0..c PROVE LastOf(e)' = LastOf(e)
    <3>1. e = c \/ e \in 0..(c - 1)
      OBVIOUS
    <3> QED BY <1>3, <1>5, <3>1 DEF LastOf
  <2>3. \A e \in 1..(c + 1) : epochs'[e].interval >= 2
    <3>1. SUFFICES ASSUME NEW e \in 1..(c + 1), e # c + 1 PROVE epochs'[e].interval >= 2
      BY <1>1, <1>4
    <3>2. e \in 1..c /\ epochs'[e].interval = epochs[e].interval
      BY <1>3, <1>5, <3>1
    <3> QED BY <3>2 DEF InEpoch
  <2>4. epochs'[1].first = 1
    <3>1. CASE c = 0
      BY <1>4, <1>7, <3>1
    <3>2. CASE c >= 1
      <4>1. epochs[1].first = 1 /\ (c = 1 \/ 1 \in 0..(c - 1))
        BY <3>2 DEF InEpoch
      <4> QED BY <1>3, <1>5, <4>1
    <3> QED BY <3>1, <3>2
  <2>5. ASSUME NEW e \in 2..(c + 1) PROVE epochs'[e].first = LastOf(e - 1)' + 1
    <3>1. CASE e = c + 1
      BY <1>4, <1>6, <2>2, <2>5, <3>1
    <3>2. CASE e # c + 1
      <4>1. e \in 2..c /\ e - 1 \in 0..c /\ epochs'[e].first = epochs[e].first
        BY <1>3, <1>5, <2>5, <3>2
      <4> QED BY <2>2, <4>1 DEF InEpoch
    <3> QED BY <3>1, <3>2
  <2>6. ASSUME NEW e \in 1..c
        PROVE  /\ epochs'[e].sealerApp = LastOf(e)'
               /\ epochs'[e].sealerBlock = LastOf(e)'
               /\ epochs'[e].lastTime = LastOf(e)'
    <3>1. CASE e = c
      BY <1>5, <1>6, <2>2, <3>1
    <3>2. CASE e # c
      <4>1. e \in 1..(c - 1) /\ e \in 0..(c - 1) /\ e \in 0..c
        BY <2>6, <3>2
      <4> QED BY <1>3, <2>2, <4>1 DEF InEpoch
    <3> QED BY <3>1, <3>2
  <2>7. /\ epochs'[c + 1].first <= height' /\ height' < LastOf(c + 1)'
        /\ height' \in Nat /\ LastOf(c + 1)' \in Nat
    BY <1>1, <1>4 DEF LastOf
  <2>8. c + 1 \in Nat /\ c + 1 >= 1 /\ c + 1 # 0 /\ (c + 1) - 1 = c
    OBVIOUS
  <2>9. /\ \A e \in 2..(c + 1) : epochs'[e].first = LastOf(e - 1)' + 1
        /\ \A e \in 1..((c + 1) - 1) : /\ epochs'[e].sealerApp = LastOf(e)'
                                       /\ epochs'[e].sealerBlock = LastOf(e)'
                                       /\ epochs'[e].lastTime = LastOf(e)'
    BY <2>5, <2>6, <2>8
  <2>10. height' # LastOf(c + 1)' /\ height' <= LastOf(c + 1)'
    BY <2>7
  <2> QED BY <1>3, <1>4, <2>1, <2>3, <2>4, <2>7, <2>8, <2>9, <2>10 DEF InEpoch
<1> QED BY <1>1, <1>8 DEF IInv

\* A block of the current epoch: BeginBlock or EndBlock records at most the block
\* hash or the time of the current epoch.
LEMMA SameEpochIInv ==
    ASSUME IInv, NEW c \in Nat, InEpoch(c), c >= 1,
           interval' = interval, height' \in Nat, epochs[c].first <= height', height' <= LastOf(c),
           DOMAIN epochs' = 0..c,
           \A e \in 0..c : e # c => epochs'[e] = epochs[e],
           epochs'[c] \in Record, epochs'[c].sealerApp = None,
           epochs'[c].first = epochs[c].first, epochs'[c].interval = epochs[c].interval,
           height' = LastOf(c) => epochs'[c].sealerBlock = height',
           height' = LastOf(c) /\ phase' = "ended" => epochs'[c].lastTime = height'
    PROVE  IInv'
<1>1. \A e \in 0..c : /\ epochs'[e] \in Record
                       /\ epochs'[e].first = epochs[e].first
                       /\ epochs'[e].interval = epochs[e].interval
                       /\ LastOf(e)' = LastOf(e)
  BY DEF InEpoch, LastOf
<1>2. \A e \in 1..c : epochs'[e].interval >= 2
  <2>1. \A e \in 1..c : e \in 0..c
    OBVIOUS
  <2> QED BY <1>1, <2>1 DEF InEpoch
<1>3. epochs'[1].first = 1
  <2>1. 1 \in 0..c
    OBVIOUS
  <2> QED BY <1>1, <2>1 DEF InEpoch
<1>4. ASSUME NEW e \in 2..c PROVE epochs'[e].first = LastOf(e - 1)' + 1
  <2>1. e \in 0..c /\ e - 1 \in 0..c
    BY <1>4
  <2> QED BY <1>1, <1>4, <2>1 DEF InEpoch
<1>5. ASSUME NEW e \in 1..(c - 1)
      PROVE  /\ epochs'[e].sealerApp = LastOf(e)'
             /\ epochs'[e].sealerBlock = LastOf(e)'
             /\ epochs'[e].lastTime = LastOf(e)'
  <2>1. e \in 0..c /\ e # c
    BY <1>5
  <2> QED BY <1>1, <1>5, <2>1 DEF InEpoch
<1>6. c \in 0..c /\ c # 0
  OBVIOUS
<1>7. LastOf(c)' = LastOf(c)
  BY <1>1, <1>6
<1>8. InEpoch(c)'
  BY <1>1, <1>2, <1>3, <1>4, <1>5, <1>6, <1>7 DEF InEpoch
<1> QED BY <1>8 DEF IInv

\* What the last block of the current epoch is to IsLastBlock and IsFirstBlockOfNextEpoch.
LEMMA CurrentEpoch ==
    ASSUME IInv, NEW c \in Nat, InEpoch(c)
    PROVE  /\ c \in 0..c /\ epochs[c] \in Record
           /\ c >= 1 => LastOf(c) \in Int /\ \A h : IsLastBlock(c, h) <=> h = LastOf(c)
           /\ c >= 1 => \A h \in Int : IsFirstBlockOfNextEpoch(c, h) <=> h = LastOf(c) + 1
<1>1. c \in 0..c /\ epochs[c] \in Record
  BY DEF InEpoch
<1>2. epochs[c].first \in Nat /\ epochs[c].interval \in Nat
  BY <1>1 DEF Record
<1> QED BY <1>1, <1>2 DEF IsLastBlock, GetLastBlockHeight, IsFirstBlockOfNextEpoch, LastOf

LEMMA BeginBlockIInv ==
    ASSUME IInv, NEW S, BeginBlock(S)
    PROVE  IInv'
<1> PICK c \in Nat : InEpoch(c)
  BY DEF IInv
<1>1. Current = c
  BY CurrentIs DEF InEpoch
<1>2. /\ phase = "ended" /\ phase' = "txs" /\ height' = height + 1 /\ interval' = interval
      /\ epochs' = IF IsFirstBlockOfNextEpoch(c, height + 1) THEN IncEpoch(height + 1)
                   ELSE RecordSealerBlockHash(height + 1)
  BY <1>1 DEF BeginBlock
<1>3. height \in Nat
  BY DEF IInv
<1>4. CASE IsFirstBlockOfNextEpoch(c, height + 1)
  BY <1>2, <1>4, NewEpochIInv
<1>5. CASE ~IsFirstBlockOfNextEpoch(c, height + 1)
  <2>1. c # 0
    BY <1>3, <1>5 DEF InEpoch, IsFirstBlockOfNextEpoch
  <2>2. /\ c >= 1 /\ epochs[c] \in Record /\ LastOf(c) \in Int
        /\ height' \in Nat /\ height' # LastOf(c) + 1
        /\ IsLastBlock(c, height') <=> height' = LastOf(c)
    BY <1>2, <1>3, <1>5, <2>1, CurrentEpoch
  <2>3. epochs[c].first \in Nat /\ epochs[c].first <= height /\ height <= LastOf(c)
        /\ epochs[c].sealerApp = None
    BY <2>2 DEF InEpoch, Record
  <2>4. epochs[c].first <= height' /\ height' <= LastOf(c)
    BY <1>2, <1>3, <2>2, <2>3
  <2>5. epochs' = IF height' = LastOf(c) THEN [epochs EXCEPT ![c].sealerBlock = height']
                  ELSE epochs
    BY <1>1, <1>2, <1>5, <2>2 DEF RecordSealerBlockHash
  <2>6. DOMAIN epochs' = 0..c /\ \A e \in 0..c : e # c => epochs'[e] = epochs[e]
    BY <2>5 DEF InEpoch
  <2>7. /\ height' = LastOf(c) => epochs'[c] = [epochs[c] EXCEPT !.sealerBlock = height']
        /\ height' # LastOf(c) => epochs'[c] = epochs[c]
    BY <2>5, CurrentEpoch DEF InEpoch
  <2>8. /\ epochs'[c] \in Record /\ epochs'[c].sealerApp = None
        /\ epochs'[c].first = epochs[c].first /\ epochs'[c].interval = epochs[c].interval
        /\ height' = LastOf(c) => epochs'[c].sealerBlock = height'
    <3>1. CASE height' = LastOf(c)
      BY <2>2, <2>3, <2>7, <3>1, SealerBlockOnly
    <3>2. CASE height' # LastOf(c)
      BY <2>2, <2>3, <2>7, <3>2
    <3> QED BY <3>1, <3>2
  <2> QED BY <1>2, <2>2, <2>4, <2>6, <2>8, SameEpochIInv
<1> QED BY <1>4, <1>5

LEMMA EndBlockIInv ==
    ASSUME IInv, NEW n, EndBlock(n)
    PROVE  IInv'
<1> PICK c \in Nat : InEpoch(c)
  BY DEF IInv
<1>1. Current = c
  BY CurrentIs DEF InEpoch
<1>2. phase = "txs" /\ phase' = "ended" /\ height' = height /\ interval' = interval
  BY DEF EndBlock
<1>3. c >= 1 /\ height \in Nat
  BY <1>2 DEF InEpoch, IInv
<1>4. /\ epochs[c] \in Record /\ LastOf(c) \in Int
      /\ IsLastBlock(c, height) <=> height = LastOf(c)
  BY <1>3, CurrentEpoch
<1>5. /\ epochs[c].first <= height /\ height <= LastOf(c) /\ epochs[c].sealerApp = None
      /\ height = LastOf(c) => epochs[c].sealerBlock = height
  BY <1>3 DEF InEpoch
<1>6. epochs' = IF height = LastOf(c) THEN [epochs EXCEPT ![c].lastTime = height] ELSE epochs
  BY <1>1, <1>4 DEF EndBlock
<1>7. DOMAIN epochs' = 0..c /\ \A e \in 0..c : e # c => epochs'[e] = epochs[e]
  BY <1>6 DEF InEpoch
<1>8. /\ height = LastOf(c) => epochs'[c] = [epochs[c] EXCEPT !.lastTime = height]
      /\ height # LastOf(c) => epochs'[c] = epochs[c]
  BY <1>6, CurrentEpoch DEF InEpoch
<1>9. /\ epochs'[c] \in Record /\ epochs'[c].sealerApp = None
      /\ epochs'[c].first = epochs[c].first /\ epochs'[c].interval = epochs[c].interval
      /\ height = LastOf(c) => epochs'[c].sealerBlock = height /\ epochs'[c].lastTime = height
  <2>1. CASE height = LastOf(c)
    BY <1>3, <1>4, <1>5, <1>8, <2>1, LastTimeOnly
  <2>2. CASE height # LastOf(c)
    BY <1>4, <1>5, <1>8, <2>2
  <2> QED BY <2>1, <2>2
<1> QED BY <1>2, <1>3, <1>5, <1>7, <1>9, SameEpochIInv

LEMMA NextIInv == IInv /\ [Next]_vars => IInv'
<1> SUFFICES ASSUME IInv, [Next]_vars PROVE IInv'
  OBVIOUS
<1>1. interval \in Nat /\ interval >= 2
  BY DEF IInv
<1>2. ASSUME NEW m, EnqueueMsg(m) PROVE IInv'
  BY <1>1, <1>2, KeepEpochs DEF EnqueueMsg
<1>3. ASSUME NEW S, BeginBlock(S) PROVE IInv'
  BY <1>3, BeginBlockIInv
<1>4. ASSUME NEW v \in Vals, WrappedCreateValidator(v) \/ WrappedEditValidator(v) PROVE IInv'
  BY <1>2, <1>4 DEF WrappedCreateValidator, WrappedEditValidator
<1>5. ASSUME NEW v \in Vals, Unjail(v) PROVE IInv'
  BY <1>1, <1>5, KeepEpochs DEF Unjail
<1>6. ASSUME NEW d, NEW v, WrappedDelegate(d, v) \/ WrappedUndelegate(d, v) PROVE IInv'
  BY <1>2, <1>6 DEF WrappedDelegate, WrappedUndelegate
<1>7. ASSUME NEW d, NEW v, NEW w, WrappedBeginRedelegate(d, v, w) PROVE IInv'
  BY <1>2, <1>7 DEF WrappedBeginRedelegate
<1>8. ASSUME NEW d, NEW v, NEW x, WrappedCancelUnbondingDelegation(d, v, x) PROVE IInv'
  BY <1>2, <1>8 DEF WrappedCancelUnbondingDelegation
<1>9. ASSUME NEW t, WrappedStakingUpdateParams(t) PROVE IInv'
  BY <1>2, <1>9 DEF WrappedStakingUpdateParams
<1>10. ASSUME NEW i \in Intervals, UpdateParams(i) PROVE IInv'
  <2>1. interval' \in Nat /\ interval' >= 2
    BY <1>10, EpochingAssumption DEF UpdateParams
  <2> QED BY <1>10, <2>1, KeepEpochs DEF UpdateParams
<1>11. ASSUME NEW n, EndBlock(n) PROVE IInv'
  BY <1>11, EndBlockIInv
<1>12. CASE UNCHANGED vars
  BY <1>1, <1>12, KeepEpochs DEF vars
<1> QED BY <1>3, <1>4, <1>5, <1>6, <1>7, <1>8, <1>9, <1>10, <1>11, <1>12 DEF Next

LEMMA TiledFollows == IInv => Tiled
<1> SUFFICES ASSUME IInv PROVE Tiled
  OBVIOUS
<1> PICK c \in Nat : InEpoch(c)
  BY DEF IInv
<1>1. Current = c /\ DOMAIN epochs = 0..c /\ epochs[c].sealerApp = None
  BY CurrentIs DEF InEpoch
<1>2. ASSUME NEW e \in 1..c
      PROVE  /\ epochs[e].first = GetLastBlockHeight(e - 1) + 1
             /\ e < c => /\ epochs[e].sealerApp = GetLastBlockHeight(e)
                         /\ epochs[e].sealerBlock = GetLastBlockHeight(e)
                         /\ epochs[e].lastTime = GetLastBlockHeight(e)
  <2>1. CASE e = 1
    BY <2>1 DEF InEpoch, GetLastBlockHeight, LastOf
  <2>2. CASE e # 1
    <3>1. e \in 2..c /\ e # 0 /\ e - 1 # 0
      BY <1>2, <2>2
    <3> QED BY <1>2, <3>1 DEF InEpoch, GetLastBlockHeight, LastOf
  <2> QED BY <2>1, <2>2
<1> QED BY <1>1, <1>2 DEF Tiled

\* The epochs of the store follow each other without a gap and without an overlap,
\* and every epoch before the current one is sealed by its own last block: by the
\* time EndBlocker records, the block hash BeginBlocker records and the AppHash that
\* RecordSealerAppHashForPrevEpoch records one block later. It holds however often
\* governance changes the epoch interval in between, at any height.
THEOREM EpochsAreTiled == Spec => []Tiled
<1>1. Spec => []IInv
  BY InitIInv, NextIInv, PTL DEF Spec
<1> QED BY <1>1, TiledFollows, PTL
=============================================================================
