-------------------------- MODULE BTCStakingProofs --------------------------
(***************************************************************************)
(* Machine-checked proofs about module BTCStaking, for every set of        *)
(* staking transactions and every sequence of parameter versions.          *)
(***************************************************************************)
EXTENDS BTCStaking, Extrema, TLAPS

\* What SafeExpansion rests on. It is not inductive alone: the delegation that
\* an expansion spends has to stay registered with its version, and nobody
\* outside the two committees ever signs.
IInv ==
    /\ versions \in 1..Len(AllParams) /\ tip \in Nat
    /\ dels \in [Dels -> Delegation \cup {None}]
    /\ \A e \in Dels : Exists(e) =>
          /\ dels[e].sigs \subseteq ParamsOf(e).committee
          /\ IsStakeExpansion(e) =>
                /\ Exists(PrevOf[e])
                /\ dels[e].sigs \subseteq ParamsOf(PrevOf[e]).committee
                /\ HasInclusionProof(dels[e]) => dels[PrevOf[e]].unbonded

LEMMA InitIInv == Init => IInv
<1>1. Len(AllParams) \in Nat \ {0}
  BY BTCParamsAssumption
<1> QED BY <1>1, BTCParamsAssumption DEF Init, IInv, Exists

\* VersionAt is 0 or an adopted version.
LEMMA VersionType ==
    ASSUME versions \in 1..Len(AllParams), NEW h
    PROVE  VersionAt(h) \in 0..Len(AllParams)
<1> DEFINE S == {0} \cup {v \in 1..versions : AllParams[v].activation <= h}
<1>1. Len(AllParams) \in Nat
  BY BTCParamsAssumption
<1>2. S \in SUBSET Int /\ S # {} /\ \A x \in S : x \in 0..Len(AllParams) /\ x <= versions
  BY <1>1
<1>3. Max(S) \in S
  <2> HIDE DEF S
  <2>1. versions \in Int
    BY <1>1
  <2> QED BY <1>2, <2>1, MaxOfBounded
<1> QED BY <1>2, <1>3 DEF VersionAt

\* A step that leaves the delegations alone keeps the invariant.
LEMMA KeepDels ==
    ASSUME IInv, versions' \in 1..Len(AllParams), tip' \in Nat, dels' = dels
    PROVE  IInv'
BY DEF IInv, Exists, ParamsOf, HasInclusionProof

\* A step that writes the record of one delegation keeps the invariant if it
\* keeps the version of a registered delegation, never takes back its
\* unbonding, and lets an expansion have a proof only after what it spends is
\* unbonded.
LEMMA WriteOne ==
    ASSUME IInv, versions' \in 1..Len(AllParams), tip' \in Nat,
           NEW d \in Dels, NEW r \in Delegation, dels' = [dels EXCEPT ![d] = r],
           Exists(d) => r.version = dels[d].version /\ (dels[d].unbonded => r.unbonded),
           r.sigs \subseteq AllParams[r.version].committee,
           IsStakeExpansion(d) =>
               /\ Exists(PrevOf[d])
               /\ r.sigs \subseteq ParamsOf(PrevOf[d]).committee
               /\ HasInclusionProof(r) => dels[PrevOf[d]].unbonded
    PROVE  IInv'
<1>1. dels' \in [Dels -> Delegation \cup {None}]
  BY DEF IInv
<1>2. \A e \in Dels : dels'[e] = IF e = d THEN r ELSE dels[e]
  BY DEF IInv
<1>3. r # None
  BY NoneAssumption
<1>4. ASSUME NEW e \in Dels, Exists(e)
      PROVE  /\ Exists(e)' /\ ParamsOf(e)' = ParamsOf(e)
             /\ dels[e].unbonded => dels'[e].unbonded
  BY <1>2, <1>3, <1>4 DEF Exists, ParamsOf
<1>5. ASSUME NEW e \in Dels, Exists(e)'
      PROVE  /\ dels'[e].sigs \subseteq ParamsOf(e)'.committee
             /\ IsStakeExpansion(e) =>
                   /\ Exists(PrevOf[e])'
                   /\ dels'[e].sigs \subseteq ParamsOf(PrevOf[e])'.committee
                   /\ HasInclusionProof(dels'[e]) => dels'[PrevOf[e]].unbonded
  <2>1. IsStakeExpansion(e) => PrevOf[e] \in Dels
    BY DelsAssumption DEF IsStakeExpansion
  <2>2. CASE e = d
    <3>1. dels'[e] = r /\ ParamsOf(e)' = AllParams[r.version]
      BY <1>2, <2>2 DEF ParamsOf
    <3> QED BY <1>4, <2>1, <2>2, <3>1
  <2>3. CASE e # d
    <3>1. dels'[e] = dels[e] /\ Exists(e)
      BY <1>2, <1>5, <2>3 DEF Exists
    <3>2. /\ dels[e].sigs \subseteq ParamsOf(e).committee
          /\ IsStakeExpansion(e) =>
                /\ Exists(PrevOf[e])
                /\ dels[e].sigs \subseteq ParamsOf(PrevOf[e]).committee
                /\ HasInclusionProof(dels[e]) => dels[PrevOf[e]].unbonded
      BY <3>1 DEF IInv
    <3> QED BY <1>4, <2>1, <3>1, <3>2
  <2> QED BY <2>2, <2>3
<1>6. IsStakeExpansion(d)' = IsStakeExpansion(d)
  BY DEF IsStakeExpansion
<1> QED BY <1>1, <1>5 DEF IInv, HasInclusionProof, IsStakeExpansion

\* Registration, with or without a proof.
LEMMA AddBTCDelegationIInv ==
    ASSUME IInv, NEW d \in Dels, NEW start \in Nat, AddBTCDelegation(d, start),
           IsStakeExpansion(d) => start = 0 /\ Exists(PrevOf[d])
    PROVE  IInv'
<1> DEFINE v == VersionAt(IF start > 0 THEN start ELSE tip)
           end == IF start > 0 THEN start + StakingTime[d] ELSE 0
           r == NewDelegation(start, end, v)
<1>1. /\ ~Exists(d) /\ v > 0 /\ dels' = [dels EXCEPT ![d] = r]
      /\ UNCHANGED <<versions, tip>>
  BY DEF AddBTCDelegation, lcVars, paramVars
<1>2. v \in 0..Len(AllParams) /\ Len(AllParams) \in Nat
  BY VersionType, BTCParamsAssumption DEF IInv
<1>3. end \in Nat /\ tip \in Nat /\ v \in 1..Len(AllParams)
  <2>1. end \in Nat
    BY DelsAssumption
  <2>2. tip \in Nat
    BY DEF IInv
  <2>3. v \in 1..Len(AllParams)
    <3> HIDE DEF v
    <3> QED BY <1>1, <1>2
  <2> QED BY <2>1, <2>2, <2>3
<1>4. r \in Delegation /\ r.sigs = {} /\ r.start = start
  <2> HIDE DEF v, end
  <2> QED BY <1>3 DEF NewDelegation, Delegation
<1> HIDE DEF r
<1>5. ~(IsStakeExpansion(d) /\ HasInclusionProof(r))
  BY <1>4 DEF HasInclusionProof
<1>6. versions' \in 1..Len(AllParams) /\ tip' \in Nat
  BY <1>1 DEF IInv
<1> QED BY <1>1, <1>4, <1>5, <1>6, WriteOne

\* A covenant signature.
LEMMA AddCovenantSigsIInv ==
    ASSUME IInv, NEW d \in Dels, NEW c \in Covenants, AddCovenantSigs(d, c)
    PROVE  IInv'
<1> DEFINE r == [dels[d] EXCEPT !.sigs = dels[d].sigs \cup {c}]
<1>1. /\ Exists(d) /\ c \in ParamsOf(d).committee
      /\ IsStakeExpansion(d) => c \in ParamsOf(PrevOf[d]).committee
      /\ dels' = [dels EXCEPT ![d].sigs = dels[d].sigs \cup {c}]
      /\ UNCHANGED <<versions, tip>>
  BY DEF AddCovenantSigs, lcVars, paramVars
<1>2. dels[d] \in Delegation
  BY <1>1 DEF IInv, Exists
<1>3. /\ r \in Delegation /\ r.sigs = dels[d].sigs \cup {c} /\ r.version = dels[d].version
      /\ r.unbonded = dels[d].unbonded /\ r.start = dels[d].start /\ r.end = dels[d].end
  BY <1>2 DEF Delegation
<1>4. dels' = [dels EXCEPT ![d] = r]
  BY <1>1
<1> HIDE DEF r
<1>5. versions' \in 1..Len(AllParams) /\ tip' \in Nat
  BY <1>1 DEF IInv
<1>6. /\ dels[d].sigs \subseteq ParamsOf(d).committee
      /\ IsStakeExpansion(d) =>
            /\ Exists(PrevOf[d])
            /\ dels[d].sigs \subseteq ParamsOf(PrevOf[d]).committee
            /\ HasInclusionProof(r) => dels[PrevOf[d]].unbonded
  BY <1>1, <1>3 DEF IInv, HasInclusionProof
<1>7. r.sigs \subseteq AllParams[r.version].committee
  BY <1>1, <1>3, <1>6 DEF ParamsOf
<1> QED BY <1>1, <1>3, <1>4, <1>5, <1>6, <1>7, WriteOne

\* The record of a delegation that gets its inclusion proof.
LEMMA WithProofType ==
    ASSUME IInv, NEW d \in Dels, Exists(d), NEW h \in Nat
    PROVE  /\ WithProof(d, h) \in Delegation
           /\ WithProof(d, h).sigs = dels[d].sigs
           /\ WithProof(d, h).version = dels[d].version
           /\ WithProof(d, h).unbonded = dels[d].unbonded
<1>1. dels[d] \in Delegation
  BY DEF IInv, Exists
<1>2. h + StakingTime[d] \in Nat
  BY DelsAssumption
<1> QED BY <1>1, <1>2 DEF Delegation, WithProof

\* The inclusion proof of a delegation that is not a stake expansion.
LEMMA AddInclusionProofIInv ==
    ASSUME IInv, NEW d \in Dels, NEW h \in Nat, AddBTCDelegationInclusionProof(d, h)
    PROVE  IInv'
<1>1. /\ Exists(d) /\ ~IsStakeExpansion(d)
      /\ dels' = [dels EXCEPT ![d] = WithProof(d, h)]
      /\ UNCHANGED <<versions, tip>>
  BY DEF AddBTCDelegationInclusionProof, lcVars, paramVars
<1> DEFINE r == WithProof(d, h)
<1>2. /\ r \in Delegation /\ r.sigs = dels[d].sigs
      /\ r.version = dels[d].version /\ r.unbonded = dels[d].unbonded
  BY <1>1, WithProofType
<1> HIDE DEF r
<1>3. dels' = [dels EXCEPT ![d] = r]
  BY <1>1 DEF r
<1>4. versions' \in 1..Len(AllParams) /\ tip' \in Nat
  BY <1>1 DEF IInv
<1>5. dels[d].sigs \subseteq AllParams[dels[d].version].committee
  BY <1>1 DEF IInv, ParamsOf
<1>6. r.sigs \subseteq AllParams[r.version].committee
  BY <1>2, <1>5
<1> QED BY <1>1, <1>2, <1>3, <1>4, <1>6, WriteOne

\* Unbonding.
LEMMA BTCUndelegateIInv ==
    ASSUME IInv, NEW d \in Dels, BTCUndelegate(d)
    PROVE  IInv'
<1> DEFINE r == [dels[d] EXCEPT !.unbonded = TRUE]
<1>1. /\ Exists(d) /\ dels' = [dels EXCEPT ![d].unbonded = TRUE]
      /\ UNCHANGED <<versions, tip>>
  BY DEF BTCUndelegate, CanUndelegate, lcVars, paramVars
<1>2. dels[d] \in Delegation
  BY <1>1 DEF IInv, Exists
<1>3. /\ r \in Delegation /\ r.sigs = dels[d].sigs /\ r.version = dels[d].version
      /\ r.unbonded /\ r.start = dels[d].start /\ r.end = dels[d].end
  BY <1>2 DEF Delegation
<1>4. dels' = [dels EXCEPT ![d] = r]
  BY <1>1
<1> HIDE DEF r
<1>5. versions' \in 1..Len(AllParams) /\ tip' \in Nat
  BY <1>1 DEF IInv
<1>6. /\ dels[d].sigs \subseteq ParamsOf(d).committee
      /\ IsStakeExpansion(d) =>
            /\ Exists(PrevOf[d])
            /\ dels[d].sigs \subseteq ParamsOf(PrevOf[d]).committee
            /\ HasInclusionProof(r) => dels[PrevOf[d]].unbonded
  BY <1>1, <1>3 DEF IInv, HasInclusionProof
<1>7. r.sigs \subseteq AllParams[r.version].committee
  BY <1>3, <1>6 DEF ParamsOf
<1> QED BY <1>1, <1>3, <1>4, <1>5, <1>6, <1>7, WriteOne

\* The inclusion proof of a stake expansion, which unbonds what it spends.
LEMMA ByExpansionIInv ==
    ASSUME IInv, NEW e \in Dels, NEW h \in Nat, BTCUndelegateByExpansion(e, h)
    PROVE  IInv'
<1> DEFINE d == PrevOf[e]
           p == WithProof(e, h)
<1>1. /\ IsStakeExpansion(e) /\ Exists(e) /\ Exists(d)
      /\ dels' = [dels EXCEPT ![e] = p, ![d].unbonded = TRUE]
      /\ UNCHANGED <<versions, tip>>
  BY DEF BTCUndelegateByExpansion, CanUndelegate, lcVars, paramVars
<1>2. d \in Dels
  BY <1>1, DelsAssumption DEF IsStakeExpansion
<1>3. /\ p \in Delegation /\ p.sigs = dels[e].sigs
      /\ p.version = dels[e].version /\ p.unbonded = dels[e].unbonded
  BY <1>1, WithProofType
<1>4. dels \in [Dels -> Delegation \cup {None}] /\ dels[d] \in Delegation
  BY <1>1, <1>2 DEF IInv, Exists
<1> HIDE DEF d, p
<1>5. dels' \in [Dels -> Delegation \cup {None}]
  <2>1. [p EXCEPT !.unbonded = TRUE] \in Delegation
    BY <1>3 DEF Delegation
  <2>2. [dels[d] EXCEPT !.unbonded = TRUE] \in Delegation
    BY <1>4 DEF Delegation
  <2> QED BY <1>1, <1>2, <1>3, <1>4, <2>1, <2>2
<1>6. ASSUME NEW x \in Dels, Exists(x)
      PROVE  /\ Exists(x)' /\ dels'[x].version = dels[x].version
             /\ dels'[x].sigs = dels[x].sigs
             /\ dels[x].unbonded => dels'[x].unbonded
             /\ x = d => dels'[x].unbonded
             /\ x # e => /\ dels'[x].start = dels[x].start
                         /\ dels'[x].end = dels[x].end
  <2>1. dels[x] \in Delegation
    BY <1>4, <1>6 DEF Exists
  <2>2. CASE x = d /\ x # e
    <3>1. dels'[x] = [dels[x] EXCEPT !.unbonded = TRUE]
      BY <1>1, <1>4, <2>2
    <3>2. dels'[x] \in Delegation
      BY <2>1, <3>1 DEF Delegation
    <3> QED BY <2>1, <2>2, <3>1, <3>2, NoneAssumption DEF Delegation, Exists
  <2>3. CASE x = d /\ x = e
    <3>1. dels'[x] = [p EXCEPT !.unbonded = TRUE]
      BY <1>1, <1>4, <2>3
    <3>2. dels'[x] \in Delegation
      BY <1>3, <3>1 DEF Delegation
    <3> QED BY <1>3, <2>3, <3>1, <3>2, NoneAssumption DEF Delegation, Exists
  <2>4. CASE x # d /\ x = e
    <3>1. dels'[x] = p
      BY <1>1, <1>4, <2>4
    <3> QED BY <1>3, <2>4, <3>1, NoneAssumption DEF Exists
  <2>5. CASE x # d /\ x # e
    <3>1. dels'[x] = dels[x]
      BY <1>1, <1>4, <2>5
    <3> QED BY <1>6, <2>5, <3>1 DEF Exists
  <2> QED BY <2>2, <2>3, <2>4, <2>5
<1>7. ASSUME NEW x \in Dels, Exists(x)' PROVE Exists(x)
  <2>1. CASE x = d \/ x = e
    BY <1>1, <2>1 DEF d
  <2>2. CASE x # d /\ x # e
    <3>1. dels'[x] = dels[x]
      BY <1>1, <1>4, <2>2
    <3> QED BY <1>7, <3>1 DEF Exists
  <2> QED BY <2>1, <2>2
<1>8. ASSUME NEW x \in Dels, Exists(x)'
      PROVE  /\ dels'[x].sigs \subseteq ParamsOf(x)'.committee
             /\ IsStakeExpansion(x) =>
                   /\ Exists(PrevOf[x])'
                   /\ dels'[x].sigs \subseteq ParamsOf(PrevOf[x])'.committee
                   /\ HasInclusionProof(dels'[x]) => dels'[PrevOf[x]].unbonded
  <2>1. Exists(x)
    BY <1>7, <1>8
  <2>2. /\ dels[x].sigs \subseteq ParamsOf(x).committee
        /\ IsStakeExpansion(x) =>
              /\ Exists(PrevOf[x])
              /\ dels[x].sigs \subseteq ParamsOf(PrevOf[x]).committee
              /\ HasInclusionProof(dels[x]) => dels[PrevOf[x]].unbonded
    BY <2>1 DEF IInv
  <2>3. dels'[x].sigs \subseteq ParamsOf(x)'.committee
    BY <1>6, <2>1, <2>2 DEF ParamsOf
  <2>4. ASSUME IsStakeExpansion(x)
        PROVE  /\ Exists(PrevOf[x])'
               /\ dels'[x].sigs \subseteq ParamsOf(PrevOf[x])'.committee
               /\ HasInclusionProof(dels'[x]) => dels'[PrevOf[x]].unbonded
    <3>1. PrevOf[x] \in Dels /\ Exists(PrevOf[x])
      BY <2>2, <2>4, DelsAssumption DEF IsStakeExpansion
    <3>2. /\ Exists(PrevOf[x])' /\ ParamsOf(PrevOf[x])' = ParamsOf(PrevOf[x])
          /\ dels[PrevOf[x]].unbonded => dels'[PrevOf[x]].unbonded
      BY <1>6, <3>1 DEF ParamsOf
    <3>3. dels'[x].sigs = dels[x].sigs
      BY <1>6, <2>1
    <3>4. HasInclusionProof(dels'[x]) => dels'[PrevOf[x]].unbonded
      <4>1. CASE x = e
        BY <1>6, <3>1, <4>1 DEF d
      <4>2. CASE x # e
        <5>1. HasInclusionProof(dels'[x]) => HasInclusionProof(dels[x])
          BY <1>6, <2>1, <4>2 DEF HasInclusionProof
        <5> QED BY <2>2, <2>4, <3>2, <5>1
      <4> QED BY <4>1, <4>2
    <3> QED BY <2>2, <2>4, <3>2, <3>3, <3>4
  <2> QED BY <2>3, <2>4
<1>9. versions' \in 1..Len(AllParams) /\ tip' \in Nat
  BY <1>1 DEF IInv
<1> QED BY <1>5, <1>8, <1>9 DEF IInv, HasInclusionProof, IsStakeExpansion

\* Every step of the specification keeps the invariant.
LEMMA NextIInv == IInv /\ [Next]_vars => IInv'
<1> SUFFICES ASSUME IInv, [Next]_vars PROVE IInv'
  OBVIOUS
<1> USE BTCParamsAssumption
<1>1. versions \in 1..Len(AllParams) /\ tip \in Nat /\ BaseHeight..tip \subseteq Nat
  BY DEF IInv
<1>2. CASE UpdateParams
  <2>1. versions' \in 1..Len(AllParams) /\ tip' = tip /\ dels' = dels
    BY <1>1, <1>2 DEF UpdateParams, lcVars
  <2> QED BY <1>1, <2>1, KeepDels
<1>3. ASSUME NEW f \in FPs,
             \/ CreateFinalityProvider(f) \/ SlashFinalityProvider(f)
             \/ JailFinalityProvider(f) \/ UnjailFinalityProvider(f)
      PROVE  IInv'
  <2>1. UNCHANGED <<versions, tip, dels>>
    BY <1>3 DEF CreateFinalityProvider, SlashFinalityProvider, JailFinalityProvider,
                UnjailFinalityProvider, lcVars, paramVars
  <2> QED BY <1>1, <2>1, KeepDels
<1>4. ASSUME NEW d \in Dels, NEW h \in {0} \cup BaseHeight..tip, CreateBTCDelegation(d, h)
      PROVE  IInv'
  <2>1. h \in Nat
    BY <1>1
  <2> QED BY <1>4, <2>1, AddBTCDelegationIInv DEF CreateBTCDelegation
<1>5. ASSUME NEW d \in Dels, BtcStakeExpand(d) PROVE IInv'
  BY <1>5, AddBTCDelegationIInv DEF BtcStakeExpand
<1>6. ASSUME NEW d \in Dels, NEW c \in Covenants, AddCovenantSigs(d, c) PROVE IInv'
  BY <1>6, AddCovenantSigsIInv
<1>7. ASSUME NEW d \in Dels, NEW h \in BaseHeight..tip, AddBTCDelegationInclusionProof(d, h)
      PROVE  IInv'
  BY <1>1, <1>7, AddInclusionProofIInv
<1>8. ASSUME NEW d \in Dels, BTCUndelegate(d) PROVE IInv'
  BY <1>8, BTCUndelegateIInv
<1>9. ASSUME NEW e \in Dels, NEW h \in BaseHeight..tip, BTCUndelegateByExpansion(e, h)
      PROVE  IInv'
  BY <1>1, <1>9, ByExpansionIInv
<1>10. ASSUME NEW r \in BaseHeight..MaxTip, NEW t \in BaseHeight..MaxTip, InsertHeaders(r, t)
       PROVE  IInv'
  <2>1. versions' = versions /\ tip' = t /\ dels' = dels /\ t \in Nat
    BY <1>10 DEF InsertHeaders, paramVars
  <2> QED BY <1>1, <2>1, KeepDels
<1>11. CASE BeginBlock
  <2>1. UNCHANGED <<versions, tip, dels>>
    BY <1>11 DEF BeginBlock, lcVars
  <2> QED BY <1>1, <2>1, KeepDels
<1>12. CASE HaltOnReorg
  <2>1. UNCHANGED <<versions, tip, dels>>
    BY <1>12 DEF HaltOnReorg, lcVars, paramVars
  <2> QED BY <1>1, <2>1, KeepDels
<1>13. CASE UNCHANGED vars
  <2>1. UNCHANGED <<versions, tip, dels>>
    BY <1>13 DEF vars, lcVars, paramVars
  <2> QED BY <1>1, <2>1, KeepDels
<1> QED BY <1>2, <1>3, <1>4, <1>5, <1>6, <1>7, <1>8, <1>9, <1>10, <1>11, <1>12, <1>13 DEF Next

\* For every set of staking transactions and every rotation of the covenant
\* committee, a stake expansion has its inclusion proof only if the delegation
\* it spends is unbonded, and is active only with the signatures of a quorum of
\* each of the two committees (BTCUndelegate, AddCovenantSigs).
THEOREM ExpansionIsSafe == Spec => []SafeExpansion
<1>1. IInv => SafeExpansion
  <2> SUFFICES ASSUME IInv PROVE ExpansionReplaces /\ ExpansionQuorum
    BY DEF SafeExpansion
  <2>1. ExpansionReplaces
    BY DEF IInv, ExpansionReplaces
  <2>2. ASSUME NEW e \in Dels, IsStakeExpansion(e), Exists(e), GetStatus(e, tip) = "ACTIVE",
               NEW p \in {ParamsOf(e), ParamsOf(PrevOf[e])}
        PROVE  Cardinality(dels[e].sigs \cap p.committee) >= p.quorum
    <3>1. HasCovenantQuorums(e, dels[e].sigs)
      BY <2>2 DEF GetStatus
    <3>2. Cardinality(dels[e].sigs) >= p.quorum
      BY <2>2, <3>1 DEF HasCovenantQuorums
    <3>3. dels[e].sigs \subseteq p.committee
      BY <2>2 DEF IInv
    <3>4. dels[e].sigs \cap p.committee = dels[e].sigs
      BY <3>3
    <3> QED BY <3>2, <3>4
  <2> QED BY <2>1, <2>2 DEF ExpansionQuorum
<1> QED BY <1>1, InitIInv, NextIInv, PTL DEF Spec
=============================================================================
