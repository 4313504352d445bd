------------------------- MODULE ShadowSyncBoundsProofs -------------------------
(***************************************************************************)
(* Proof of what the bounds resolver lets through to the prover           *)
(* (ProverBatchInvertedByOne), for every value of the constants and with  *)
(* no hypothesis on the headers.                                           *)
(*                                                                         *)
(* The argument: the Rollup's anchors never decrease from a batch to the   *)
(* next (each commit adds a number of L2 blocks) and never change once     *)
(* written; the two batchDataStore reads of batch_blocks_inspect are the   *)
(* anchors of the candidate and of its parent, both committed; so          *)
(* prev_bn <= current_bn.  Line 211 lets a candidate through only when     *)
(* prev_bn + 1 > current_bn, hence prev_bn = current_bn.                  *)
(***************************************************************************)
EXTENDS ShadowSyncProofs

\* The places of the task once get_committed_batch has chosen a candidate,
\* and once the bounds resolver has let it through.
SelectedPCs == {"prevAnchor", "curAnchor", "resolve", "getTx", "proveState",
                "send", "receipt", "prove"}
ResolvedPCs == {"getTx", "proveState", "send", "receipt", "prove"}

\* Every committed batch ends at or after the block its parent ends at.
AnchorsMonotone == \A i \in 1 .. Len(commitLog) : anchor[i - 1] <= anchor[i]

\* The task's reads of the bounds: the candidate is a committed batch other
\* than genesis, prev_bn and current_bn are its parent's and its own anchor,
\* and the BatchInfo past line 211 is built from them, in a release build,
\* with start_block > end_block.
BoundsCoherent ==
    /\ pc \in SelectedPCs => cand \in 1 .. Len(commitLog)
    /\ pc \in SelectedPCs \ {"prevAnchor"} => prevBn = anchor[cand - 1]
    /\ pc \in ResolvedPCs \cup {"resolve"} => curBn = anchor[cand]
    /\ pc \in ResolvedPCs =>
          /\ info.start_block = prevBn + 1 /\ info.end_block = curBn
          /\ prevBn + 1 > curBn
          /\ ~OverflowChecks

BoundsInv == TypeInv /\ AnchorsMonotone /\ BoundsCoherent

-----------------------------------------------------------------------------
(***************************************************************************)
(* BoundsInv is inductive.                                                 *)
(***************************************************************************)

\* The initial state satisfies BoundsInv: no batch is committed and the
\* task sleeps.
LEMMA InitBoundsInv == Init => BoundsInv
BY InitTypeInv DEF Init, BoundsInv, AnchorsMonotone, BoundsCoherent, SelectedPCs,
                   ResolvedPCs

\* A step that ends the cycle, or panics, leaves no candidate to speak of.
LEMMA LeaveCandidate ==
    ASSUME pc' \notin SelectedPCs
    PROVE  BoundsCoherent'
BY DEF BoundsCoherent, SelectedPCs, ResolvedPCs

\* A step of the ledgers that keeps the committed anchors, the log's length
\* and the task keeps BoundsCoherent.
LEMMA BoundsFrame ==
    ASSUME BoundsCoherent, Len(commitLog) \in Nat,
           Len(commitLog') >= Len(commitLog),
           pc \in SelectedPCs => /\ anchor'[cand] = anchor[cand]
                                 /\ anchor'[cand - 1] = anchor[cand - 1],
           UNCHANGED <<pc, cand, prevBn, curBn, info>>
    PROVE  BoundsCoherent'
BY DEF BoundsCoherent, SelectedPCs, ResolvedPCs

\* The sequencer's commit of the next batch keeps the anchors monotone and
\* leaves the committed ones alone.
LEMMA CommitBatchBounds ==
    ASSUME BoundsInv, CommitBatch
    PROVE  BoundsInv'
<1>. DEFINE i == Len(commitLog) + 1
<1>1. PICK step \in AnchorSteps :
        /\ commitLog' = Append(commitLog, [blk |-> l1Height, idx |-> i, parent |-> i - 1])
        /\ anchor' = [anchor EXCEPT ![i] = anchor[i - 1] + step]
    BY DEF CommitBatch
<1>2. /\ Len(commitLog) \in Nat /\ Len(commitLog) < MaxBatch
      /\ anchor \in [Batches -> Nat] /\ commitLog \in Seq(Events)
      /\ step \in Nat
    BY <1>1, ConstantsAssumption DEF CommitBatch, BoundsInv, TypeInv, TypeOK
<1>3. /\ Len(commitLog') = i
      /\ i \in Batches
      /\ \A j \in Batches : j # i => anchor'[j] = anchor[j]
      /\ anchor'[i] = anchor[i - 1] + step
    BY <1>1, <1>2, ConstantsAssumption DEF Batches
<1>4. TypeInv'
    BY NextTypeInv DEF BoundsInv, Next, Ledgers
<1>5. AnchorsMonotone'
    <2>1. SUFFICES ASSUME NEW j \in 1 .. i PROVE anchor'[j - 1] <= anchor'[j]
        BY <1>3 DEF AnchorsMonotone
    <2>2. j \in Batches /\ j - 1 \in Batches
        BY <1>2, <1>3, ConstantsAssumption DEF Batches
    <2>3. CASE j = i
        BY <1>2, <1>3, <2>2, <2>3
    <2>4. CASE j # i
        <3>1. j \in 1 .. Len(commitLog)
            BY <1>2, <2>4
        <3>2. anchor'[j] = anchor[j] /\ anchor'[j - 1] = anchor[j - 1]
            BY <1>2, <1>3, <2>2, <3>1
        <3>. QED
            BY <3>1, <3>2 DEF BoundsInv, AnchorsMonotone
    <2>. QED
        BY <2>3, <2>4
<1>6. BoundsCoherent'
    <2>1. pc \in SelectedPCs => /\ anchor'[cand] = anchor[cand]
                                /\ anchor'[cand - 1] = anchor[cand - 1]
        BY <1>2, <1>3, ConstantsAssumption DEF BoundsInv, BoundsCoherent, Batches
    <2>2. UNCHANGED <<pc, cand, prevBn, curBn, info>>
        BY DEF CommitBatch, localVars
    <2>. QED
        BY <1>2, <1>3, <2>1, <2>2, BoundsFrame DEF BoundsInv
<1>. QED
    BY <1>4, <1>5, <1>6 DEF BoundsInv

\* Every return of sync_batch, and a panic, leaves no candidate to speak of.
LEMMA EndCycleBounds ==
    ASSUME EndCycle \/ Panic, pc \in PCs
    PROVE  BoundsCoherent'
<1>1. pc' \notin SelectedPCs
    BY DEF EndCycle, Panic, SelectedPCs
<1>. QED
    BY <1>1, LeaveCandidate

\* A step past the bounds resolver that keeps the candidate, the bounds and
\* the BatchInfo keeps BoundsCoherent.
LEMMA ResolvedStep ==
    ASSUME BoundsCoherent, pc \in ResolvedPCs, pc' \in ResolvedPCs,
           UNCHANGED <<commitLog, anchor, cand, prevBn, curBn, info>>
    PROVE  BoundsCoherent'
BY DEF BoundsCoherent, SelectedPCs, ResolvedPCs

\* A step that keeps the log and the anchors keeps them monotone; with the
\* type and BoundsCoherent in the next state, it keeps BoundsInv.
LEMMA KeepAnchors ==
    ASSUME AnchorsMonotone, UNCHANGED <<commitLog, anchor>>, TypeInv', BoundsCoherent'
    PROVE  BoundsInv'
BY DEF AnchorsMonotone, BoundsInv

\* Every step keeps BoundsInv.
LEMMA NextBoundsInv == BoundsInv /\ [Next]_vars => BoundsInv'
<1>. SUFFICES ASSUME BoundsInv, [Next]_vars PROVE BoundsInv'
    OBVIOUS
<1>0. TypeInv'
    BY NextTypeInv DEF BoundsInv
<1>1. /\ AnchorsMonotone /\ BoundsCoherent
      /\ pc \in PCs /\ commitLog \in Seq(Events) /\ Len(commitLog) \in Nat
      /\ Len(commitLog) <= MaxBatch /\ cand \in Nat
      /\ prevBn \in Nat /\ curBn \in Nat
      /\ anchor \in [Batches -> Nat]
    BY DEF BoundsInv, TypeInv, TypeOK, LogShape
<1>2. CASE UNCHANGED vars
    BY <1>0, <1>1, <1>2, KeepAnchors DEF vars, ledgerVars, localVars, BoundsCoherent
<1>3. CASE Tick
    BY <1>0, <1>1, <1>3, LeaveCandidate, KeepAnchors DEF Tick, ledgerVars, SelectedPCs
<1>4. CASE GetBlockNumber
    <2>0. UNCHANGED <<commitLog, anchor>>
        BY <1>4 DEF GetBlockNumber, ledgerVars
    <2>1. BoundsCoherent'
        <3>1. CASE pc' = "getLogs"
            BY <3>1, LeaveCandidate DEF SelectedPCs
        <3>. QED
            BY <1>1, <1>4, <3>1, EndCycleBounds DEF GetBlockNumber
    <2>. QED
        BY <1>0, <1>1, <2>0, <2>1, KeepAnchors
<1>5. CASE GetLogs
    <2>. DEFINE W == LogsFrom(ScanStart(latest))
    <2>0. UNCHANGED <<commitLog, anchor>>
        BY <1>5 DEF GetLogs, ledgerVars
    <2>1. BoundsCoherent'
        <3>1. CASE /\ Cardinality(W) >= 3
                   /\ cand' = commitLog[CandidateLog(W)].idx
                   /\ pc' = "prevAnchor"
            <4>1. ScanStart(latest) \in Int
                BY ConstantsAssumption DEF ScanStart, BoundsInv, TypeInv, TypeOK
            <4>2. /\ Len(commitLog) >= 2
                  /\ CandidateLog(W) = Len(commitLog) - 1
                BY <1>1, <3>1, <4>1, CandidateIsPrevious DEF BoundsInv, TypeInv, LogShape
            <4>3. commitLog[Len(commitLog) - 1].idx = Len(commitLog) - 1
                BY <1>1, <4>2 DEF BoundsInv, TypeInv, LogShape
            <4>4. cand' \in 1 .. Len(commitLog')
                BY <1>1, <2>0, <3>1, <4>2, <4>3
            <4>. QED
                BY <3>1, <4>4 DEF BoundsCoherent, SelectedPCs, ResolvedPCs
        <3>. QED
            BY <1>1, <1>5, <3>1, EndCycleBounds DEF GetLogs
    <2>. QED
        BY <1>0, <1>1, <2>0, <2>1, KeepAnchors
<1>6. CASE PrevAnchor
    <2>0. UNCHANGED <<commitLog, anchor>>
        BY <1>6 DEF PrevAnchor, ledgerVars
    <2>1. BoundsCoherent'
        <3>1. CASE /\ prevBn' = StoredBlockNumber(cand - 1) /\ pc' = "curAnchor"
                   /\ UNCHANGED <<latest, cand, nextTx, curBn, info, header, myTx>>
            <4>1. cand \in 1 .. Len(commitLog)
                BY <1>1, <1>6 DEF PrevAnchor, BoundsCoherent, SelectedPCs
            <4>2. prevBn' = anchor[cand - 1]
                BY <1>1, <3>1, <4>1, ConstantsAssumption DEF StoredBlockNumber, Batches
            <4>. QED
                BY <2>0, <3>1, <4>1, <4>2 DEF BoundsCoherent, SelectedPCs, ResolvedPCs
        <3>. QED
            BY <1>1, <1>6, <3>1, EndCycleBounds DEF PrevAnchor
    <2>. QED
        BY <1>0, <1>1, <2>0, <2>1, KeepAnchors
<1>7. CASE CurAnchor
    <2>0. UNCHANGED <<commitLog, anchor>>
        BY <1>7 DEF CurAnchor, ledgerVars
    <2>1. BoundsCoherent'
        <3>1. CASE /\ curBn' = StoredBlockNumber(cand) /\ pc' = "resolve"
                   /\ UNCHANGED <<latest, cand, nextTx, prevBn, info, header, myTx>>
            <4>1. cand \in 1 .. Len(commitLog) /\ prevBn = anchor[cand - 1]
                BY <1>1, <1>7 DEF CurAnchor, BoundsCoherent, SelectedPCs
            <4>2. curBn' = anchor[cand]
                BY <1>1, <3>1, <4>1, ConstantsAssumption DEF StoredBlockNumber, Batches
            <4>. QED
                BY <2>0, <3>1, <4>1, <4>2 DEF BoundsCoherent, SelectedPCs, ResolvedPCs
        <3>. QED
            BY <1>1, <1>7, <3>1, EndCycleBounds DEF CurAnchor
    <2>. QED
        BY <1>0, <1>1, <2>0, <2>1, KeepAnchors
<1>8. CASE Resolve
    <2>0. UNCHANGED <<commitLog, anchor>>
        BY <1>8 DEF Resolve, ledgerVars
    <2>1. BoundsCoherent'
        <3>1. CASE prevBn + 1 <= curBn
            <4>1. EndCycle
                BY <1>1, <1>8, <3>1 DEF Resolve
            <4>. QED
                BY <1>1, <4>1, EndCycleBounds
        <3>2. CASE prevBn + 1 > curBn
            <4>0. ~(prevBn + 1 <= curBn)
                BY <1>1, <3>2
            <4>1. PICK read \in SUBSET BlockRange(prevBn, curBn) :
                    LET total == SumFunctionOnSet(l2Txs, read)
                        span  == (((curBn - (prevBn + 1)) % U64Mod) + 1) % U64Mod
                    IN  IF OverflowChecks
                        THEN Panic
                        ELSE IF span > MaxBlock \/ total > MaxTxn
                             THEN EndCycle
                             ELSE /\ info' = [batch_index |-> cand,
                                              start_block |-> prevBn + 1,
                                              end_block |-> curBn]
                                  /\ pc' = "getTx"
                                  /\ UNCHANGED <<latest, cand, nextTx, prevBn, curBn,
                                                 header, myTx>>
                BY <1>8, <4>0, Zenon DEF Resolve
            <4>. DEFINE total == SumFunctionOnSet(l2Txs, read)
                        span  == (((curBn - (prevBn + 1)) % U64Mod) + 1) % U64Mod
            <4>2. CASE OverflowChecks
                BY <1>1, <4>1, <4>2, EndCycleBounds
            <4>3. CASE ~OverflowChecks /\ (span > MaxBlock \/ total > MaxTxn)
                BY <1>1, <4>1, <4>3, EndCycleBounds
            <4>4. CASE ~OverflowChecks /\ ~(span > MaxBlock \/ total > MaxTxn)
                <5>1. /\ info' = [batch_index |-> cand,
                                  start_block |-> prevBn + 1, end_block |-> curBn]
                      /\ pc' = "getTx"
                      /\ UNCHANGED <<cand, prevBn, curBn>>
                    BY <4>1, <4>4
                <5>2. cand \in 1 .. Len(commitLog) /\ prevBn = anchor[cand - 1]
                      /\ curBn = anchor[cand]
                    BY <1>1, <1>8 DEF Resolve, BoundsCoherent, SelectedPCs, ResolvedPCs
                <5>. QED
                    BY <2>0, <3>2, <4>4, <5>1, <5>2
                    DEF BoundsCoherent, SelectedPCs, ResolvedPCs
            <4>. QED
                BY <4>2, <4>3, <4>4
        <3>. QED
            BY <1>1, <3>1, <3>2
    <2>. QED
        BY <1>0, <1>1, <2>0, <2>1, KeepAnchors
<1>9. CASE GetTx
    <2>0. UNCHANGED <<commitLog, anchor>>
        BY <1>9 DEF GetTx, ledgerVars
    <2>1. BoundsCoherent'
        <3>1. CASE pc' = "proveState" /\ UNCHANGED <<cand, prevBn, curBn, info>>
            BY <1>1, <1>9, <2>0, <3>1, ResolvedStep DEF GetTx, ResolvedPCs
        <3>. QED
            BY <1>1, <1>9, <3>1, EndCycleBounds DEF GetTx
    <2>. QED
        BY <1>0, <1>1, <2>0, <2>1, KeepAnchors
<1>10. CASE ProveState
    <2>0. UNCHANGED <<commitLog, anchor>>
        BY <1>10 DEF ProveState, ledgerVars
    <2>1. BoundsCoherent'
        <3>1. CASE pc' = "send" /\ UNCHANGED localVars
            BY <1>1, <1>10, <2>0, <3>1, ResolvedStep DEF ProveState, ResolvedPCs, localVars
        <3>. QED
            BY <1>1, <1>10, <3>1, EndCycleBounds DEF ProveState
    <2>. QED
        BY <1>0, <1>1, <2>0, <2>1, KeepAnchors
<1>11. CASE Send
    <2>0. UNCHANGED <<commitLog, anchor>>
        BY <1>11 DEF Send, ledgerVars
    <2>1. BoundsCoherent'
        <3>1. CASE pc' = "receipt" /\ UNCHANGED <<cand, prevBn, curBn, info>>
            BY <1>1, <1>11, <2>0, <3>1, ResolvedStep DEF Send, ResolvedPCs
        <3>. QED
            BY <1>1, <1>11, <3>1, EndCycleBounds DEF Send
    <2>. QED
        BY <1>0, <1>1, <2>0, <2>1, KeepAnchors
<1>12. CASE Receipt
    <2>0. UNCHANGED <<commitLog, anchor>>
        BY <1>12 DEF Receipt, ledgerVars
    <2>1. BoundsCoherent'
        <3>1. CASE pc' = "prove" /\ UNCHANGED localVars
            BY <1>1, <1>12, <2>0, <3>1, ResolvedStep DEF Receipt, ResolvedPCs, localVars
        <3>. QED
            BY <1>1, <1>12, <3>1, EndCycleBounds DEF Receipt
    <2>. QED
        BY <1>0, <1>1, <2>0, <2>1, KeepAnchors
<1>13. CASE Prove
    BY <1>0, <1>1, <1>13, EndCycleBounds, KeepAnchors DEF Prove
<1>14. CASE Restart
    BY <1>0, <1>1, <1>14, EndCycleBounds, KeepAnchors DEF Restart, ledgerVars
<1>15. CASE CommitBatch
    BY <1>15, CommitBatchBounds
<1>16. CASE AdvanceL1 \/ IncludeTx
    <2>1. UNCHANGED <<commitLog, anchor, pc, cand, prevBn, curBn, info>>
        BY <1>16 DEF AdvanceL1, IncludeTx, localVars
    <2>2. BoundsCoherent'
        BY <1>1, <2>1, BoundsFrame
    <2>. QED
        BY <1>0, <1>1, <2>1, <2>2, KeepAnchors
<1>. QED
    BY <1>2, <1>3, <1>4, <1>5, <1>6, <1>7, <1>8, <1>9, <1>10, <1>11, <1>12, <1>13,
       <1>14, <1>15, <1>16 DEF Next, Syncer, Ledgers

-----------------------------------------------------------------------------
(***************************************************************************)
(* The theorems.                                                           *)
(***************************************************************************)

\* BoundsInv holds in every reachable state, for every value of the
\* constants: get_committed_batch's candidate is a committed batch, and the
\* bounds batch_blocks_inspect reads are its parent's and its own anchor.
THEOREM BoundsInvariant == Spec => []BoundsInv
<1>1. Init => BoundsInv
    BY InitBoundsInv
<1>2. BoundsInv /\ [Next]_vars => BoundsInv'
    BY NextBoundsInv
<1>. QED
    BY <1>1, <1>2, PTL DEF Spec

\* What BoundsInv says of the prover's batch: in prev_bn <= current_bn and
\* the range check's prev_bn + 1 > current_bn, the two are equal.
LEMMA BoundsInvProverBatch == BoundsInv => ProverBatchInvertedByOne
<1>. SUFFICES ASSUME BoundsInv, pc = "prove"
             PROVE  info.start_block = info.end_block + 1 /\ ~OverflowChecks
    BY DEF ProverBatchInvertedByOne
<1>1. /\ cand \in 1 .. Len(commitLog)
      /\ prevBn = anchor[cand - 1] /\ curBn = anchor[cand]
      /\ info.start_block = prevBn + 1 /\ info.end_block = curBn
      /\ prevBn + 1 > curBn /\ ~OverflowChecks
    BY DEF BoundsInv, BoundsCoherent, SelectedPCs, ResolvedPCs
<1>2. anchor[cand - 1] <= anchor[cand]
    BY <1>1 DEF BoundsInv, AnchorsMonotone
<1>3. prevBn \in Nat /\ curBn \in Nat
    BY DEF BoundsInv, TypeInv, TypeOK
<1>. QED
    BY <1>1, <1>2, <1>3

\* Every batch the syncer hands to the prover (main.rs:78) has
\* start_block = end_block + 1, and only a release build gets there: the
\* range check of get_committed_batch (shadow_rollup.rs:211) lets no other
\* batch through, for any number of batches, blocks, anchors or word width.
THEOREM ProverBatchAlwaysInverted == Spec => []ProverBatchInvertedByOne
BY BoundsInvariant, BoundsInvProverBatch, PTL
=================================================================================
