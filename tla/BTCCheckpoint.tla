--------------------------- MODULE BTCCheckpoint ---------------------------
(***************************************************************************)
(* x/btccheckpoint, the statuses it drives in x/checkpointing, and the     *)
(* records x/monitor keeps of reported checkpoints.                        *)
(*                                                                         *)
(* The checkpoint of an epoch is written to Bitcoin in two transactions; a *)
(* submission proves that both are in blocks of the main chain. An epoch   *)
(* may have several submissions. At the end of every block in which the    *)
(* Bitcoin tip moved, all submissions of epochs that are not finalized are *)
(* judged again and the life cycle of the checkpoints follows.             *)
(*                                                                         *)
(* Bitcoin is a trunk (fork 0) and forks that leave it at fixed heights; a *)
(* block is <<fork, height>>. The light client (module BTCLightClient)     *)
(* shows the chain up to `tip`; it extends it or changes to another fork.  *)
(***************************************************************************)
EXTENDS Integers, Sequences, SequencesExt, FiniteSets, FiniteSetsExt

CONSTANTS Epochs,         \* epochs 1..N
          Submissions,    \* records [epoch, txs, kind], see Submission
          Forks, Root,    \* forks besides the trunk, and the trunk height each leaves
          CheckpointFinalizationTimeout,   \* w
          ConfirmationDepths,   \* the values governance may give k
          InitialDepth,         \* the value of k at genesis
          MaxHeight,      \* bound: height of the BTC tip
          MaxReorg,       \* bound: blocks a change of fork may roll back
          ShorterForks    \* whether a fork with more work may be shorter

ASSUME EpochsAssumption == IsFiniteSet(Epochs) /\ Epochs = 1..Cardinality(Epochs)

ASSUME BTCCheckpointParams ==
    /\ CheckpointFinalizationTimeout \in Nat
    /\ ConfirmationDepths \subseteq 1..(CheckpointFinalizationTimeout - 1)
    /\ InitialDepth \in ConfirmationDepths

\* A submission is identified by its two transactions (block and index), what
\* they say is the epoch and a raw checkpoint: the local one, the same with
\* other signers, or one for a different block that a quorum signed.
Blocks == {<<0, h>> : h \in 1..MaxHeight}
            \cup UNION {{<<f, h>> : h \in (Root[f] + 1)..MaxHeight} : f \in Forks}
Kinds == {"local", "otherSigners", "conflict"}
Submission == [epoch : Epochs, txs : [1..2 -> [hash : Blocks, index : Nat]], kind : Kinds]

ASSUME SubmissionsAssumption == Submissions \subseteq Submission

\* BtcStatus of an epoch.
Submitted == 0
Confirmed == 1
Finalized == 2

VARIABLES tip,          \* [fork, height] of the light client
          updated,      \* transient: the light client was updated in this block
          k,            \* BtcConfirmationDepth
          epochs,       \* epoch -> [keys, status] (EpochData)
          saved,        \* submissions that have SubmissionData
          lastFinalized,    \* LatestFinalizedEpoch of x/btccheckpoint
          ckpt,         \* x/checkpointing: status of the raw checkpoint
          ckptFinalized,    \* x/checkpointing: LastFinalizedEpoch
          reported,     \* x/monitor: <<epoch, kind>> -> BTC height, 0 if none
          conflict,     \* x/checkpointing: ConflictingCheckpointReceived
          halted,       \* "no" or why EndBlock panicked
          deepest       \* history: most blocks that one change of fork rolled back

btcVars == <<tip, updated, k, deepest>>
vars == <<tip, updated, k, epochs, saved, lastFinalized, ckpt, ckptFinalized, reported, conflict, halted, deepest>>

-----------------------------------------------------------------------------
(* The main chain.                                                         *)

RootOf(f) == IF f = 0 THEN MaxHeight ELSE Root[f]
OnMainChain(b) == /\ b[2] <= tip.height
                  /\ b[1] = (IF b[2] <= RootOf(tip.fork) THEN 0 ELSE tip.fork)
headerDepth(b) == tip.height - b[2]

\* GetSubmissionBtcInfo; without an error only if both blocks are in the chain.
Known(s) == \A i \in 1..2 : OnMainChain(s.txs[i].hash)

GetSubmissionBtcInfo(s) ==
    LET d1 == headerDepth(s.txs[1].hash)  i1 == s.txs[1].index
        d2 == headerDepth(s.txs[2].hash)  i2 == s.txs[2].index
    IN  [key      |-> s,
         oldest   |-> IF d1 > d2 THEN d1 ELSE d2,
         youngest |-> IF d1 < d2 THEN d1 ELSE d2,
         index    |-> IF d1 < d2 \/ (d1 = d2 /\ i1 < i2) THEN i1 ELSE i2]

HappenedAfter(s, parent) == s.oldest < parent.youngest

IsBetterThan(s, best) == \/ s.youngest > best.youngest
                         \/ s.youngest = best.youngest /\ s.index < best.index

checkSubmissionStatus(info) ==
    IF info.youngest >= CheckpointFinalizationTimeout THEN Finalized
    ELSE IF info.youngest >= k THEN Confirmed ELSE Submitted

\* checkAncestors: some submission of the epoch before is in the chain, below
\* the new one.
checkAncestors(s) ==
    s.epoch > 1 => \E p \in ToSet(epochs[s.epoch - 1].keys) :
        Known(p) /\ HappenedAfter(GetSubmissionBtcInfo(s), GetSubmissionBtcInfo(p))

-----------------------------------------------------------------------------
(* x/checkpointing: a status changes only from an expected one, otherwise  *)
(* an error is logged and nothing happens.                                 *)

setCheckpointStatus(c, e, expected, to) == IF c[e] \in expected THEN [c EXCEPT ![e] = to] ELSE c
SetCheckpointSubmitted(c, e) == setCheckpointStatus(c, e, {"SEALED"}, "SUBMITTED")
SetCheckpointConfirmed(c, e) == setCheckpointStatus(c, e, {"SUBMITTED"}, "CONFIRMED")
SetCheckpointFinalized(c, e) == setCheckpointStatus(c, e, {"CONFIRMED"}, "FINALIZED")
SetCheckpointForgotten(c, e) == setCheckpointStatus(c, e, {"SUBMITTED", "CONFIRMED"}, "SEALED")

-----------------------------------------------------------------------------
(* checkCheckpoints: one pass over the epochs from the last finalized one. *)
(* Its state is a record that starts as the module's state and carries     *)
(* parentEpochInfo: whether it is set, and the best submission of the      *)
(* epoch before, which is <<>> if that epoch lost all its submissions.     *)

\* getEpochChanges. The loop leaves BestSubmissionIdx at the first key as long
\* as the best submission is the first one that is kept.
KeepSubmission(parent, s) ==
    Known(s) /\ (parent = <<>> \/ HappenedAfter(GetSubmissionBtcInfo(s), parent[1]))

SubmissionsToKeep(parent, keys) == SelectSeq(keys, LAMBDA s : KeepSubmission(parent, s))

EpochBestSubmission(kept) ==
    LET info(i) == GetSubmissionBtcInfo(kept[i])
    IN  info(CHOOSE i \in DOMAIN kept :
                 \A j \in DOMAIN kept : /\ ~IsBetterThan(info(j), info(i))
                                        /\ IsBetterThan(info(i), info(j)) \/ i <= j)

BestSubmissionIdx(keys, kept, best) ==
    IF best.key = kept[1] THEN 1 ELSE CHOOSE i \in DOMAIN keys : keys[i] = best.key

\* Mutant: x/checkpointing is not told that an epoch is forgotten.
ForgetEpochSilently(st, e) ==
    [st EXCEPT !.saved = @ \ ToSet(st.epochs[e].keys),
               !.epochs[e].keys = <<>>,
               !.hasParent = TRUE, !.parent = <<>>]

\* The epoch has lost all its submissions. Its status is kept.
ForgetEpoch(st, e) ==
    [st EXCEPT !.saved = @ \ ToSet(st.epochs[e].keys),
               !.epochs[e].keys = <<>>,
               !.ckpt = SetCheckpointForgotten(@, e),
               !.reported = IF st.ckpt[e] \in {"SUBMITTED", "CONFIRMED"}
                            THEN [@ EXCEPT ![<<e, "local">>] = 0] ELSE @,
               !.hasParent = TRUE, !.parent = <<>>]

\* Mutant: the submission of a finalized epoch is not looked up.
FinalizedEpochTrusted(st, e) ==
    [st EXCEPT !.hasParent = TRUE, !.parent = <<GetSubmissionBtcInfo(st.epochs[e].keys[1])>>]

\* A finalized epoch only gives the next one its parent.
FinalizedEpoch(st, e) ==
    LET keys == st.epochs[e].keys
    IN  IF Len(keys) # 1 THEN [st EXCEPT !.panic = "several submissions"]
        ELSE IF ~Known(keys[1]) THEN [st EXCEPT !.panic = "finalized submission lost"]
        ELSE [st EXCEPT !.hasParent = TRUE, !.parent = <<GetSubmissionBtcInfo(keys[1])>>]

ConfirmEpoch(st, e) ==
    [st EXCEPT !.epochs[e].status = Confirmed, !.ckpt = SetCheckpointConfirmed(@, e)]

FinalizeEpoch(st, e) ==
    [st EXCEPT !.epochs[e].status = Finalized,
               !.ckpt = SetCheckpointFinalized(@, e),
               !.ckptFinalized = IF st.ckpt[e] = "CONFIRMED" THEN e ELSE @,
               !.lastFinalized = e]

UpdateStatus(st, e, status) ==
    LET c == IF status > st.epochs[e].status /\ st.epochs[e].status = Submitted
             THEN ConfirmEpoch(st, e) ELSE st
    IN  IF status > c.epochs[e].status /\ c.epochs[e].status = Confirmed
        THEN FinalizeEpoch(c, e) ELSE c

\* Mutant: the data of lost submissions stays.
PruneSubmissionsLeak(st, e, kept, best) ==
    [st EXCEPT !.epochs[e].keys = IF @ # <<>> /\ st.epochs[e].status = Finalized
                                  THEN <<best.key>> ELSE kept]

\* Mutant: a finalized epoch keeps all its submissions.
PruneSubmissionsKeepAll(st, e, kept, best) ==
    [st EXCEPT !.saved = @ \ (ToSet(st.epochs[e].keys) \ ToSet(kept)),
               !.epochs[e].keys = kept]

PruneSubmissions(st, e, kept, best) ==
    LET keys == st.epochs[e].keys
        idx  == BestSubmissionIdx(keys, kept, best)
    IN  IF st.epochs[e].status = Finalized
        THEN [st EXCEPT !.saved = @ \ {keys[i] : i \in DOMAIN keys \ {idx}},
                        !.epochs[e].keys = <<best.key>>]
        ELSE [st EXCEPT !.saved = @ \ (ToSet(keys) \ ToSet(kept)),
                        !.epochs[e].keys = kept]

JudgeEpoch(st, e) ==
    LET kept == SubmissionsToKeep(st.parent, st.epochs[e].keys)
        best == EpochBestSubmission(kept)
    IN  IF st.epochs[e].keys = <<>> THEN [st EXCEPT !.stop = TRUE]
        ELSE IF st.epochs[e].status = Finalized THEN FinalizedEpoch(st, e)
        ELSE IF (st.hasParent /\ st.parent = <<>>) \/ kept = <<>> THEN ForgetEpoch(st, e)
        ELSE [PruneSubmissions(UpdateStatus(st, e, checkSubmissionStatus(best)), e, kept, best)
                 EXCEPT !.hasParent = TRUE, !.parent = <<best>>]

checkCheckpoints ==
    LET pass[e \in 0..Cardinality(Epochs)] ==
            IF e = 0
            THEN [epochs |-> epochs, saved |-> saved, lastFinalized |-> lastFinalized,
                  ckpt |-> ckpt, ckptFinalized |-> ckptFinalized, reported |-> reported,
                  hasParent |-> FALSE, parent |-> <<>>, stop |-> FALSE, panic |-> "no"]
            ELSE LET st == pass[e - 1]
                 IN  IF e < lastFinalized \/ st.stop \/ st.panic # "no" THEN st
                     ELSE JudgeEpoch(st, e)
    IN  pass[Cardinality(Epochs)]

-----------------------------------------------------------------------------
Init ==
    /\ tip = [fork |-> 0, height |-> 1]
    /\ updated = FALSE
    /\ k = InitialDepth
    /\ epochs = [e \in Epochs |-> [keys |-> <<>>, status |-> Submitted]]
    /\ saved = {}
    /\ lastFinalized = 0
    /\ ckpt = [e \in Epochs |-> "NONE"]
    /\ ckptFinalized = 0
    /\ reported = [r \in Epochs \X Kinds |-> 0]
    /\ conflict = FALSE
    /\ halted = "no"
    /\ deepest = 0

Running == halted = "no"

\* PreBlocker of x/checkpointing at the first block of the epoch after e: the
\* sealed checkpoint of e is stored.
SealCheckpoint(e) ==
    /\ Running
    /\ ckpt[e] = "NONE"
    /\ \A d \in Epochs : d < e => ckpt[d] # "NONE"
    /\ ckpt' = [ckpt EXCEPT ![e] = "SEALED"]
    /\ UNCHANGED <<btcVars, epochs, saved, lastFinalized, ckptFinalized, reported, conflict, halted>>

\* The guards of InsertBTCSpvProof up to VerifyCheckpoint.
CanInsertProof(s) ==
    /\ s \notin saved
    /\ Known(s)
    /\ epochs[s.epoch].status # Finalized
    /\ ckpt[s.epoch] # "NONE"

\* updateBtcLightClientHeightForCheckpoint keeps the first height.
Report(s) == IF reported[<<s.epoch, s.kind>>] = 0
             THEN [reported EXCEPT ![<<s.epoch, s.kind>>] = tip.height] ELSE reported

InsertBTCSpvProof(s) ==
    /\ Running
    /\ CanInsertProof(s)
    /\ s.kind # "conflict"
    /\ checkAncestors(s)
    /\ ckpt' = IF epochs[s.epoch].keys = <<>> THEN SetCheckpointSubmitted(ckpt, s.epoch) ELSE ckpt
    /\ epochs' = [epochs EXCEPT ![s.epoch].keys = Append(@, s)]
    /\ saved' = saved \cup {s}
    /\ reported' = Report(s)
    /\ UNCHANGED <<btcVars, lastFinalized, ckptFinalized, conflict, halted>>

\* The message succeeds, so that the flag is kept: EndBlock will halt.
InsertConflictingProof(s) ==
    /\ Running
    /\ CanInsertProof(s)
    /\ s.kind = "conflict"
    /\ conflict' = TRUE
    /\ reported' = Report(s)
    /\ UNCHANGED <<btcVars, epochs, saved, lastFinalized, ckpt, ckptFinalized, halted>>

ExtendTip(h) ==
    /\ Running
    /\ h > tip.height
    /\ tip' = [tip EXCEPT !.height = h]
    /\ updated' = TRUE
    /\ UNCHANGED <<k, deepest, epochs, saved, lastFinalized, ckpt, ckptFinalized, reported, conflict, halted>>

CommonHeight(f) ==
    Min({RootOf(f), RootOf(tip.fork), tip.height})

SwitchToFork(f, h) ==
    /\ Running
    /\ f # tip.fork
    /\ tip.height - CommonHeight(f) <= MaxReorg
    /\ deepest' = Max({deepest, tip.height - CommonHeight(f)})
    /\ h > CommonHeight(f)
    /\ f # 0 => h > Root[f]
    /\ ShorterForks \/ h > tip.height
    /\ tip' = [fork |-> f, height |-> h]
    /\ updated' = TRUE
    /\ UNCHANGED <<k, epochs, saved, lastFinalized, ckpt, ckptFinalized, reported, conflict, halted>>

\* The finalization timeout cannot be changed, the confirmation depth can.
UpdateParams(d) ==
    /\ Running
    /\ d # k
    /\ k' = d
    /\ UNCHANGED <<tip, updated, deepest, epochs, saved, lastFinalized, ckpt, ckptFinalized, reported, conflict, halted>>

\* Mutant: the conflict is cleared at the end of the block.
EndBlockForgetsConflict ==
    /\ Running
    /\ updated
    /\ LET st == checkCheckpoints
       IN  /\ st.panic = "no"
           /\ epochs' = st.epochs
           /\ saved' = st.saved
           /\ lastFinalized' = st.lastFinalized
           /\ ckpt' = st.ckpt
           /\ ckptFinalized' = st.ckptFinalized
           /\ reported' = st.reported
    /\ updated' = FALSE
    /\ conflict' = FALSE
    /\ UNCHANGED <<tip, k, deepest, halted>>

\* EndBlock of x/btccheckpoint, which judges the submissions if the light client
\* was updated, then of x/checkpointing, which panics on a conflict. A panic
\* halts the chain and the block is not committed.
EndBlock ==
    /\ Running
    /\ updated
    /\ ~conflict
    /\ LET st == checkCheckpoints
       IN  /\ st.panic = "no"
           /\ epochs' = st.epochs
           /\ saved' = st.saved
           /\ lastFinalized' = st.lastFinalized
           /\ ckpt' = st.ckpt
           /\ ckptFinalized' = st.ckptFinalized
           /\ reported' = st.reported
    /\ updated' = FALSE
    /\ UNCHANGED <<tip, k, deepest, conflict, halted>>

HaltOnConflict ==
    /\ Running
    /\ conflict
    /\ halted' = "conflict"
    /\ UNCHANGED <<btcVars, epochs, saved, lastFinalized, ckpt, ckptFinalized, reported, conflict>>

HaltOnReorg ==
    /\ Running
    /\ updated
    /\ LET st == checkCheckpoints IN st.panic # "no" /\ halted' = st.panic
    /\ UNCHANGED <<btcVars, epochs, saved, lastFinalized, ckpt, ckptFinalized, reported, conflict>>

Next ==
    \/ \E e \in Epochs : SealCheckpoint(e)
    \/ \E s \in Submissions : InsertBTCSpvProof(s)
    \/ \E s \in Submissions : InsertConflictingProof(s)
    \/ \E h \in 1..MaxHeight : ExtendTip(h)
    \/ \E f \in Forks \cup {0}, h \in 1..MaxHeight : SwitchToFork(f, h)
    \/ \E d \in ConfirmationDepths : UpdateParams(d)
    \/ EndBlock
    \/ HaltOnConflict
    \/ HaltOnReorg

Spec == Init /\ [][Next]_vars

-----------------------------------------------------------------------------
EpochData == [keys : Seq(Submissions), status : {Submitted, Confirmed, Finalized}]

TypeOK ==
    /\ tip \in [fork : Forks \cup {0}, height : 1..MaxHeight]
    /\ updated \in BOOLEAN
    /\ k \in ConfirmationDepths
    /\ epochs \in [Epochs -> EpochData]
    /\ saved \subseteq Submissions
    /\ lastFinalized \in Epochs \cup {0}
    /\ ckpt \in [Epochs -> {"NONE", "SEALED", "SUBMITTED", "CONFIRMED", "FINALIZED"}]
    /\ ckptFinalized \in Epochs \cup {0}
    /\ reported \in [Epochs \X Kinds -> 0..MaxHeight]
    /\ conflict \in BOOLEAN
    /\ halted \in {"no", "conflict", "several submissions", "finalized submission lost"}
    /\ deepest \in 0..MaxHeight

\* No change of fork rolled back more than the smallest confirmation depth.
Shallow == deepest <= Min(ConfirmationDepths)

\* The life cycle that x/checkpointing keeps of an epoch is the one that
\* x/btccheckpoint drives: SEALED without submissions, and SUBMITTED, CONFIRMED
\* or FINALIZED with them; and x/monitor has no report of a checkpoint that was
\* forgotten. setCheckpointStatus only logs when a status is not the expected
\* one, so that a difference would never be repaired. A deeper reorganisation
\* may forget a confirmed epoch, after which the modules do disagree.
LifeCyclesAgree ==
    Shallow => \A e \in Epochs :
        LET ed == epochs[e]
        IN  /\ ckpt[e] \in {"NONE", "SEALED"} <=> ed.keys = <<>>
            /\ ckpt[e] = "SUBMITTED" => ed.status = Submitted
            /\ ckpt[e] = "CONFIRMED" <=> ed.status = Confirmed
            /\ ckpt[e] = "FINALIZED" <=> ed.status = Finalized
            /\ ed.keys = <<>> => reported[<<e, "local">>] = 0

\* As long as an epoch is not finalized, SubmissionData exists for exactly the
\* submissions the epoch refers to. A missing entry lets a submission be
\* inserted a second time, one left behind bars it for ever.
DataOf(e) == {s \in saved : s.epoch = e}

DataOfOpenEpochs ==
    \A e \in Epochs : epochs[e].status # Finalized => DataOf(e) = ToSet(epochs[e].keys)

\* Epochs are timestamped in order: the finalized ones are a prefix that ends at
\* LatestFinalizedEpoch, and when the submissions have been judged, all that are
\* left are in the chain, and each comes after a submission of the epoch before,
\* whatever a reorganisation or the pruning has removed.
Settled == Running /\ ~updated

OrderedOnBitcoin ==
    /\ \A e \in Epochs : epochs[e].status = Finalized <=> e <= lastFinalized
    /\ Settled => \A e \in Epochs : \A s \in ToSet(epochs[e].keys) :
        e >= lastFinalized =>
          /\ Known(s)
          /\ e > 1 /\ e > lastFinalized =>
               /\ epochs[e - 1].keys # <<>>
               /\ \E p \in ToSet(epochs[e - 1].keys) :
                    HappenedAfter(GetSubmissionBtcInfo(s), GetSubmissionBtcInfo(p))

\* Every state is well typed, and a reorganisation of fewer than w blocks never
\* reaches a finalized submission: the panics of checkCheckpoints need a deeper
\* one.
NoPanic ==
    /\ TypeOK
    /\ deepest < CheckpointFinalizationTimeout => halted \in {"no", "conflict"}

\* Once a conflicting checkpoint was accepted nothing clears the flag, and no
\* block is committed in which an epoch is confirmed or finalized: EndBlock of
\* x/checkpointing panics.
ConflictHalts ==
    [][conflict => /\ conflict'
                   /\ \A e \in Epochs : epochs'[e].status = epochs[e].status]_vars
=============================================================================
