-------------------------- MODULE ShadowSyncProofs --------------------------
(***************************************************************************)
(* Proofs about ShadowSync for every value of the constants.               *)
(***************************************************************************)
EXTENDS ShadowSync, FiniteSetTheorems, TLAPS

\* The Rollup emits CommitBatch logs in L1 block order: the ledger order of
\* the logs is sorted by block number.
LogSorted ==
    \A j, k \in 1 .. Len(commitLog) :
        j <= k => commitLog[j].blk <= commitLog[k].blk

-----------------------------------------------------------------------------
(***************************************************************************)
(* The candidate selection of get_committed_batch (lines 186-200, 229).    *)
(* Over logs already in block order, the stable sort changes nothing: the *)
(* last log of a set of positions is its greatest position.               *)
(***************************************************************************)

\* A CommitBatch log of the ledger carries natural numbers.
LEMMA LogEntryType ==
    ASSUME commitLog \in Seq(Events), NEW k \in 1 .. Len(commitLog)
    PROVE  /\ commitLog[k] \in Events
           /\ commitLog[k].blk \in Nat /\ commitLog[k].idx \in Nat
           /\ commitLog[k].parent \in Nat
<1>1. commitLog[k] \in Events
    OBVIOUS
<1>. QED
    BY <1>1 DEF Events

\* A set of log positions whose greatest element is m has m as its last log
\* in the sorted order (logs.last()).
LEMMA MaxIsLast ==
    ASSUME commitLog \in Seq(Events), LogSorted,
           NEW W, NEW m \in W, W \subseteq 1 .. m, m <= Len(commitLog)
    PROVE  LastLog(W) = m
<1>1. m \in 1 .. Len(commitLog)
    OBVIOUS
<1>2. \A j \in W \ {m} : SortsAfter(m, j)
    <2>1. SUFFICES ASSUME NEW j \in W \ {m} PROVE SortsAfter(m, j)
        OBVIOUS
    <2>2. j \in 1 .. Len(commitLog) /\ j < m
        OBVIOUS
    <2>3. commitLog[j].blk <= commitLog[m].blk
        BY <1>1, <2>2 DEF LogSorted
    <2>4. commitLog[j].blk \in Nat /\ commitLog[m].blk \in Nat
        BY <1>1, <2>2, LogEntryType
    <2>. QED
        BY <2>2, <2>3, <2>4 DEF SortsAfter
<1>3. \A k \in W : (\A j \in W \ {k} : SortsAfter(k, j)) => k = m
    <2>1. SUFFICES ASSUME NEW k \in W, \A j \in W \ {k} : SortsAfter(k, j), k # m
                   PROVE  FALSE
        OBVIOUS
    <2>2. SortsAfter(k, m)
        BY <2>1
    <2>3. k \in 1 .. Len(commitLog) /\ k < m
        BY <2>1
    <2>4. commitLog[k].blk <= commitLog[m].blk
        BY <1>1, <2>3 DEF LogSorted
    <2>5. commitLog[k].blk \in Nat /\ commitLog[m].blk \in Nat
        BY <1>1, <2>3, LogEntryType
    <2>. QED
        BY <2>2, <2>3, <2>4, <2>5 DEF SortsAfter
<1>. QED
    BY <1>2, <1>3 DEF LastLog

\* When get_logs returns at least three logs, the last one is the newest
\* log of the ledger and the candidate (second to last) the one before it.
LEMMA CandidateIsPrevious ==
    ASSUME commitLog \in Seq(Events), LogSorted,
           NEW from \in Int, Cardinality(LogsFrom(from)) >= 3
    PROVE  /\ Len(commitLog) >= 2
           /\ LastLog(LogsFrom(from)) = Len(commitLog)
           /\ CandidateLog(LogsFrom(from)) = Len(commitLog) - 1
<1>. DEFINE W == LogsFrom(from)
            n == Len(commitLog)
            W2 == W \ {n}
<1>0. n \in Nat
    OBVIOUS
<1>1. IsFiniteSet(W) /\ W \subseteq 1 .. n
    <2>1. W \subseteq 1 .. n
        BY DEF LogsFrom
    <2>2. IsFiniteSet(1 .. n)
        BY <1>0, FS_Interval
    <2>. QED
        BY <2>1, <2>2, FS_Subset
<1>2. W # {}
    BY <1>1, FS_EmptySet
<1>3. n \in W
    <2>1. PICK k \in W : TRUE
        BY <1>2
    <2>2. k \in 1 .. n /\ commitLog[k].blk >= from
        BY DEF LogsFrom
    <2>3. commitLog[k].blk <= commitLog[n].blk
        BY <2>2 DEF LogSorted
    <2>4. commitLog[k].blk \in Nat /\ commitLog[n].blk \in Nat
        BY <2>2, LogEntryType
    <2>. QED
        BY <2>2, <2>3, <2>4 DEF LogsFrom
<1>4. LastLog(W) = n
    BY <1>1, <1>3, MaxIsLast
<1>5. W2 # {}
    <2>1. SUFFICES ASSUME W2 = {} PROVE FALSE
        OBVIOUS
    <2>2. W = {n}
        BY <1>3, <2>1
    <2>3. Cardinality(W) = 1
        BY <2>2, FS_Singleton
    <2>. QED
        BY <2>3
<1>6. n - 1 \in W2 /\ W2 \subseteq 1 .. (n - 1)
    <2>1. PICK k \in W2 : TRUE
        BY <1>5
    <2>2. k \in 1 .. (n - 1) /\ commitLog[k].blk >= from
        BY <1>1 DEF LogsFrom
    <2>3. commitLog[k].blk <= commitLog[n - 1].blk
        BY <2>2 DEF LogSorted
    <2>4. commitLog[k].blk \in Nat /\ commitLog[n - 1].blk \in Nat
        BY <2>2, LogEntryType
    <2>. QED
        BY <1>1, <2>2, <2>3, <2>4 DEF LogsFrom
<1>7. LastLog(W2) = n - 1
    BY <1>0, <1>6, MaxIsLast
<1>. QED
    BY <1>4, <1>6, <1>7 DEF CandidateLog
-----------------------------------------------------------------------------
(***************************************************************************)
(* Type correctness.  TypeOK alone is not inductive: the reads of GetLogs  *)
(* index commitLog by CHOOSE, the header is read at headerLen[parent] and  *)
(* IncludeTx writes shadowStore[idx], so the induction needs the shape of *)
(* the Rollup's log (sorted, one log per batch, parent = index - 1) and    *)
(* that every batch index the task or a transaction holds is a batch.     *)
(***************************************************************************)
LogShape ==
    /\ Len(commitLog) <= MaxBatch
    /\ LogSorted
    /\ \A k \in 1 .. Len(commitLog) :
          /\ commitLog[k].blk <= l1Height
          /\ commitLog[k].idx = k
          /\ commitLog[k].parent = k - 1

IndicesInRange ==
    /\ cand \in Batches
    /\ nextTx.parent \in Batches
    /\ header.id \in Batches
    /\ \A k \in DOMAIN txs : txs[k].idx \in Batches

TypeInv == TypeOK /\ LogShape /\ IndicesInRange

\* Every BatchStore the syncer assembles is a store of 32-byte values
\* (sync_batch, lines 98-125), whatever the header's length.
LEMMA BatchStoreType ==
    ASSUME NEW h \in [id : Batches, len : Nat]
    PROVE  BatchStoreOf(h) \in [StoreFields -> B256Values(Batches)]
<1>1. \A lo, hi \in Nat : ToB256(GetOrDefault(h, lo, hi)) \in B256Values(Batches)
    BY DEF ToB256, GetOrDefault, Bytes, EmptySlice, ZeroB256, B256Values, Batches
<1>. QED
    BY <1>1 DEF BatchStoreOf, StoreFields

\* The empty slot of the ShadowRollup is a store of 32-byte values.
LEMMA NoStoreType ==
    NoStore \in [StoreFields -> B256Values(Batches)]
BY DEF NoStore, ZeroB256, B256Values, Batches

\* The locals that every end of a cycle restores have their types.
LEMMA DefaultsType ==
    /\ NoEvent \in Events /\ NoEvent.parent \in Batches
    /\ NoInfo \in BatchInfos
    /\ NoHeader \in [id : Nat, len : Nat] /\ NoHeader.id \in Batches
BY ConstantsAssumption DEF NoEvent, Events, NoInfo, BatchInfos, NoHeader, Header, Batches

\* The initial state satisfies the type invariant.
LEMMA InitTypeInv == Init => TypeInv
<1>. SUFFICES ASSUME Init PROVE TypeInv
    OBVIOUS
<1>1. TypeOK
    <2>1. shadowStore \in [Batches -> [StoreFields -> B256Values(Batches)]]
        BY NoStoreType DEF Init
    <2>2. headerLen \in [Batches -> Nat]
        BY ConstantsAssumption DEF Init
    <2>. QED
        BY <2>1, <2>2, DefaultsType, ConstantsAssumption DEF Init, TypeOK, PCs
<1>2. LogShape
    BY ConstantsAssumption DEF Init, LogShape, LogSorted
<1>3. IndicesInRange
    BY DefaultsType, ConstantsAssumption DEF Init, IndicesInRange, Batches
<1>. QED
    BY <1>1, <1>2, <1>3 DEF TypeInv

\* The task's locals have their types, and the batch indices it holds are
\* batches.
LocalsOK ==
    /\ pc \in PCs /\ latest \in Nat /\ cand \in Batches
    /\ nextTx \in Events /\ nextTx.parent \in Batches
    /\ prevBn \in Nat /\ curBn \in Nat /\ info \in BatchInfos
    /\ header \in [id : Batches, len : Nat]
    /\ myTx \in 0 .. Len(txs)
    /\ pc \in {"receipt", "prove"} => myTx \in 1 .. Len(txs)

\* A step of the task that leaves the ledgers alone keeps the invariant as
\* soon as it leaves its locals well typed.
LEMMA LocalStep ==
    ASSUME TypeInv,
           UNCHANGED <<l1Height, commitLog, anchor, l2Txs, headerLen, shadowStore, txs>>,
           proven' \subseteq Nat, LocalsOK'
    PROVE  TypeInv'
<1>. USE DEF Batches
<1>1. TypeOK'
    <2>1. (l1Height \in 1 .. MaxHeight /\ commitLog \in Seq(Events))'
        BY DEF TypeInv, TypeOK
    <2>2. (anchor \in [Batches -> Nat] /\ l2Txs \in [L2Blocks -> Nat]
           /\ headerLen \in [Batches -> Nat])'
        BY DEF TypeInv, TypeOK
    <2>3. (shadowStore \in [Batches -> [StoreFields -> B256Values(Batches)]]
           /\ proven \subseteq Nat /\ txs \in Seq(Txs))'
        BY DEF TypeInv, TypeOK
    <2>4. (pc \in PCs /\ latest \in Nat /\ cand \in Nat /\ nextTx \in Events
           /\ prevBn \in Nat /\ curBn \in Nat /\ info \in BatchInfos
           /\ header \in [id : Nat, len : Nat])'
        BY ConstantsAssumption DEF LocalsOK
    <2>5. (myTx \in 0 .. Len(txs) /\ (pc \in {"receipt", "prove"} => myTx \in 1 .. Len(txs)))'
        BY DEF LocalsOK
    <2>. QED
        BY <2>1, <2>2, <2>3, <2>4, <2>5 DEF TypeOK
<1>2. LogShape'
    BY DEF TypeInv, LogShape, LogSorted
<1>3. IndicesInRange'
    BY DEF TypeInv, IndicesInRange, LocalsOK
<1>. QED
    BY <1>1, <1>2, <1>3 DEF TypeInv

\* The same for a step that leaves every ledger alone.
LEMMA SyncerStep ==
    ASSUME TypeInv, UNCHANGED ledgerVars, LocalsOK'
    PROVE  TypeInv'
<1>1. proven' \subseteq Nat
    BY DEF TypeInv, TypeOK, ledgerVars
<1>. QED
    BY <1>1, LocalStep DEF ledgerVars

\* Under the invariant the locals are well typed.
LEMMA TypeInvLocals ==
    TypeInv => LocalsOK
BY DEF TypeInv, TypeOK, IndicesInRange, LocalsOK

\* Every return of sync_batch (and a restart) keeps the invariant.
LEMMA EndCycleStep ==
    ASSUME TypeInv, EndCycle, UNCHANGED ledgerVars
    PROVE  TypeInv'
<1>1. LocalsOK'
    <2>1. Len(txs') = Len(txs) /\ Len(txs) \in Nat
        BY DEF TypeInv, TypeOK, ledgerVars
    <2>. QED
        BY <2>1, DefaultsType, ConstantsAssumption DEF EndCycle, LocalsOK, PCs, Batches,
                                                      NoHeader, Header
<1>. QED
    BY <1>1, SyncerStep

\* Every step of the syncer, of a restart and of the ledgers keeps the type
\* invariant.
LEMMA NextTypeInv == TypeInv /\ [Next]_vars => TypeInv'
<1>. SUFFICES ASSUME TypeInv, [Next]_vars PROVE TypeInv'
    OBVIOUS
<1>0. LocalsOK /\ Len(txs) \in Nat
    BY TypeInvLocals DEF TypeInv, TypeOK
<1>1. CASE Tick
    BY <1>0, <1>1, SyncerStep DEF Tick, LocalsOK, PCs, ledgerVars, localVars
<1>2. CASE GetBlockNumber
    <2>1. CASE latest' = l1Height /\ pc' = "getLogs"
               /\ UNCHANGED <<cand, nextTx, prevBn, curBn, info, header, myTx>>
               /\ UNCHANGED ledgerVars
        <3>1. l1Height \in Nat
            BY ConstantsAssumption DEF TypeInv, TypeOK
        <3>. QED
            BY <1>0, <2>1, <3>1, SyncerStep DEF LocalsOK, PCs, ledgerVars
    <2>. QED
        BY <1>2, <2>1, EndCycleStep DEF GetBlockNumber
<1>3. CASE GetLogs
    <2>. DEFINE W == LogsFrom(ScanStart(latest))
    <2>1. CASE EndCycle /\ UNCHANGED ledgerVars
        BY <2>1, EndCycleStep
    <2>2. CASE /\ Cardinality(W) >= 3
               /\ commitLog[CandidateLog(W)].idx # 0
               /\ cand' = commitLog[CandidateLog(W)].idx
               /\ nextTx' = commitLog[LastLog(W)]
               /\ pc' = "prevAnchor"
               /\ UNCHANGED <<latest, prevBn, curBn, info, header, myTx>>
               /\ UNCHANGED ledgerVars
        <3>1. ScanStart(latest) \in Int
            BY ConstantsAssumption DEF ScanStart, TypeInv, TypeOK
        <3>2. /\ Len(commitLog) >= 2
              /\ LastLog(W) = Len(commitLog)
              /\ CandidateLog(W) = Len(commitLog) - 1
            BY <2>2, <3>1, CandidateIsPrevious DEF TypeInv, TypeOK, LogShape
        <3>3. /\ commitLog[Len(commitLog)] \in Events
              /\ commitLog[Len(commitLog)].parent \in Batches
              /\ commitLog[Len(commitLog) - 1].idx \in Batches
            <4>1. commitLog[Len(commitLog)] \in Events
                BY <3>2, LogEntryType DEF TypeInv, TypeOK
            <4>2. Len(commitLog) \in Nat /\ Len(commitLog) <= MaxBatch
                BY DEF TypeInv, TypeOK, LogShape
            <4>3. /\ commitLog[Len(commitLog)].parent = Len(commitLog) - 1
                  /\ commitLog[Len(commitLog) - 1].idx = Len(commitLog) - 1
                BY <3>2, <4>2 DEF TypeInv, LogShape
            <4>. QED
                BY <3>2, <4>1, <4>2, <4>3, ConstantsAssumption DEF Batches
        <3>4. LocalsOK'
            BY <1>0, <2>2, <3>2, <3>3 DEF LocalsOK, PCs, ledgerVars
        <3>. QED
            BY <2>2, <3>4, SyncerStep
    <2>. QED
        BY <1>3, <2>1, <2>2 DEF GetLogs
<1>4. CASE PrevAnchor
    <2>1. CASE /\ prevBn' = StoredBlockNumber(cand - 1) /\ pc' = "curAnchor"
               /\ UNCHANGED <<latest, cand, nextTx, curBn, info, header, myTx>>
               /\ UNCHANGED ledgerVars
        <3>1. StoredBlockNumber(cand - 1) \in Nat
            BY DEF StoredBlockNumber, TypeInv, TypeOK
        <3>. QED
            BY <1>0, <2>1, <3>1, SyncerStep DEF LocalsOK, PCs, ledgerVars
    <2>. QED
        BY <1>4, <2>1, EndCycleStep DEF PrevAnchor
<1>5. CASE CurAnchor
    <2>1. CASE /\ curBn' = StoredBlockNumber(cand) /\ pc' = "resolve"
               /\ UNCHANGED <<latest, cand, nextTx, prevBn, info, header, myTx>>
               /\ UNCHANGED ledgerVars
        <3>1. StoredBlockNumber(cand) \in Nat
            BY DEF StoredBlockNumber, TypeInv, TypeOK
        <3>. QED
            BY <1>0, <2>1, <3>1, SyncerStep DEF LocalsOK, PCs, ledgerVars
    <2>. QED
        BY <1>5, <2>1, EndCycleStep DEF CurAnchor
<1>6. CASE Resolve
    <2>1. CASE EndCycle /\ UNCHANGED ledgerVars
        BY <2>1, EndCycleStep
    <2>2. CASE Panic /\ UNCHANGED ledgerVars
        BY <1>0, <2>2, SyncerStep DEF Panic, LocalsOK, PCs, ledgerVars, localVars
    <2>3. CASE /\ info' = [batch_index |-> cand, start_block |-> prevBn + 1,
                           end_block |-> curBn]
               /\ pc' = "getTx"
               /\ UNCHANGED <<latest, cand, nextTx, prevBn, curBn, header, myTx>>
               /\ UNCHANGED ledgerVars
        <3>1. info' \in BatchInfos
            BY <1>0, <2>3 DEF LocalsOK, BatchInfos, Batches
        <3>. QED
            BY <1>0, <2>3, <3>1, SyncerStep DEF LocalsOK, PCs, ledgerVars
    <2>. QED
        BY <1>6, <2>1, <2>2, <2>3 DEF Resolve
<1>7. CASE GetTx
    <2>1. CASE /\ header' = Header(nextTx.parent, headerLen[nextTx.parent])
               /\ pc' = "proveState"
               /\ UNCHANGED <<latest, cand, nextTx, prevBn, curBn, info, myTx>>
               /\ UNCHANGED ledgerVars
        <3>1. header' \in [id : Batches, len : Nat]
            BY <1>0, <2>1 DEF LocalsOK, TypeInv, TypeOK, Header
        <3>. QED
            BY <1>0, <2>1, <3>1, SyncerStep DEF LocalsOK, PCs, ledgerVars
    <2>. QED
        BY <1>7, <2>1, EndCycleStep DEF GetTx
<1>8. CASE ProveState
    <2>1. CASE pc' = "send" /\ UNCHANGED localVars /\ UNCHANGED ledgerVars
        BY <1>0, <2>1, SyncerStep DEF LocalsOK, PCs, ledgerVars, localVars
    <2>. QED
        BY <1>8, <2>1, EndCycleStep DEF ProveState
<1>9. CASE Send
    <2>1. CASE /\ Len(txs) < MaxSends
               /\ txs' = Append(txs, [idx |-> cand, store |-> BatchStoreOf(header),
                                      status |-> "pending"])
               /\ myTx' = Len(txs) + 1
               /\ pc' = "receipt"
               /\ UNCHANGED <<latest, cand, nextTx, prevBn, curBn, info, header>>
               /\ UNCHANGED <<l1Height, commitLog, anchor, l2Txs, headerLen,
                              shadowStore, proven>>
        <3>1. BatchStoreOf(header) \in [StoreFields -> B256Values(Batches)]
            BY <1>0, BatchStoreType DEF LocalsOK
        <3>2. [idx |-> cand, store |-> BatchStoreOf(header), status |-> "pending"] \in Txs
            BY <1>0, <3>1 DEF LocalsOK, Txs, Batches
        <3>3. txs' \in Seq(Txs) /\ Len(txs') = Len(txs) + 1
            BY <2>1, <3>2 DEF TypeInv, TypeOK
        <3>4. \A k \in DOMAIN txs' : txs'[k].idx \in Batches
            BY <1>0, <2>1, <3>3 DEF TypeInv, TypeOK, IndicesInRange, LocalsOK
        <3>5. TypeOK'
            BY <1>0, <2>1, <3>3 DEF TypeInv, TypeOK, LocalsOK, PCs, Batches
        <3>6. LogShape'
            BY <2>1 DEF TypeInv, LogShape, LogSorted
        <3>7. IndicesInRange'
            BY <1>0, <2>1, <3>4 DEF LocalsOK, IndicesInRange
        <3>. QED
            BY <3>5, <3>6, <3>7 DEF TypeInv
    <2>2. CASE EndCycle /\ UNCHANGED ledgerVars
        BY <2>2, EndCycleStep
    <2>. QED
        BY <1>9, <2>1, <2>2 DEF Send
<1>10. CASE Receipt
    <2>1. CASE Panic /\ UNCHANGED ledgerVars
        BY <1>0, <2>1, SyncerStep DEF Panic, LocalsOK, PCs, ledgerVars, localVars
    <2>2. CASE pc' = "prove" /\ UNCHANGED localVars /\ UNCHANGED ledgerVars
        BY <1>0, <1>10, <2>2, SyncerStep DEF Receipt, LocalsOK, PCs, ledgerVars, localVars
    <2>3. CASE EndCycle /\ UNCHANGED ledgerVars
        BY <2>3, EndCycleStep
    <2>. QED
        BY <1>10, <2>1, <2>2, <2>3 DEF Receipt
<1>11. CASE Prove
    <2>1. proven' \subseteq Nat
        BY <1>0, <1>11 DEF Prove, LocalsOK, BatchInfos, TypeInv, TypeOK
    <2>2. UNCHANGED <<l1Height, commitLog, anchor, l2Txs, headerLen, shadowStore, txs>>
        BY <1>11 DEF Prove
    <2>3. LocalsOK'
        BY <1>0, <1>11, <2>2, DefaultsType, ConstantsAssumption
        DEF Prove, EndCycle, LocalsOK, PCs, Batches, NoHeader, Header
    <2>. QED
        BY <2>1, <2>2, <2>3, LocalStep
<1>12. CASE Restart
    BY <1>12, EndCycleStep DEF Restart
<1>13. CASE CommitBatch
    <2>. DEFINE i == Len(commitLog) + 1
    <2>1. PICK step \in AnchorSteps, len \in HeaderLens, count \in TxPerBlock :
            /\ anchor[i - 1] + step \in L2Blocks \cup {0}
            /\ commitLog' = Append(commitLog, [blk |-> l1Height, idx |-> i, parent |-> i - 1])
            /\ anchor' = [anchor EXCEPT ![i] = anchor[i - 1] + step]
            /\ headerLen' = [headerLen EXCEPT ![i] = len]
            /\ l2Txs' = [b \in L2Blocks |->
                           IF anchor[i - 1] < b /\ b <= anchor'[i] THEN count ELSE l2Txs[b]]
        BY <1>13 DEF CommitBatch
    <2>2. UNCHANGED <<l1Height, shadowStore, proven, txs, pc, localVars>>
        BY <1>13 DEF CommitBatch
    <2>3. i \in 1 .. MaxBatch /\ i - 1 \in 0 .. MaxBatch /\ Len(commitLog) \in Nat
        <3>1. Len(commitLog) < MaxBatch
            BY <1>13 DEF CommitBatch
        <3>2. Len(commitLog) \in Nat
            BY DEF TypeInv, TypeOK
        <3>. QED
            BY <3>1, <3>2, ConstantsAssumption
    <2>4. /\ Len(commitLog') = i
          /\ \A k \in 1 .. Len(commitLog) : commitLog'[k] = commitLog[k]
          /\ commitLog'[i] = [blk |-> l1Height, idx |-> i, parent |-> i - 1]
        BY <2>1 DEF TypeInv, TypeOK
    <2>5. commitLog' \in Seq(Events)
        BY <2>1, <2>3, ConstantsAssumption DEF TypeInv, TypeOK, Events
    <2>6. /\ anchor' \in [Batches -> Nat]
          /\ headerLen' \in [Batches -> Nat]
          /\ l2Txs' \in [L2Blocks -> Nat]
        <3>1. step \in Nat /\ len \in Nat /\ count \in Nat
            BY ConstantsAssumption
        <3>2. anchor[i - 1] \in Nat
            BY <2>3 DEF TypeInv, TypeOK, Batches
        <3>3. anchor' \in [Batches -> Nat]
            BY <2>1, <2>3, <3>1, <3>2 DEF TypeInv, TypeOK, Batches
        <3>4. headerLen' \in [Batches -> Nat]
            BY <2>1, <3>1 DEF TypeInv, TypeOK
        <3>5. l2Txs' \in [L2Blocks -> Nat]
            BY <2>1, <3>1 DEF TypeInv, TypeOK
        <3>. QED
            BY <3>3, <3>4, <3>5
    <2>7. TypeOK'
        BY <2>2, <2>5, <2>6 DEF TypeInv, TypeOK, localVars
    <2>8. LogShape'
        <3>1. \A k \in 1 .. Len(commitLog) : commitLog[k].blk \in Nat
            BY LogEntryType DEF TypeInv, TypeOK
        <3>2. l1Height \in Nat
            BY ConstantsAssumption DEF TypeInv, TypeOK
        <3>3. \A k \in 1 .. Len(commitLog') :
                 /\ commitLog'[k].blk <= l1Height'
                 /\ commitLog'[k].idx = k
                 /\ commitLog'[k].parent = k - 1
            <4>1. SUFFICES ASSUME NEW k \in 1 .. Len(commitLog')
                           PROVE  /\ commitLog'[k].blk <= l1Height'
                                  /\ commitLog'[k].idx = k
                                  /\ commitLog'[k].parent = k - 1
                OBVIOUS
            <4>2. CASE k = i
                BY <2>2, <2>4, <3>2, <4>2
            <4>3. CASE k # i
                BY <2>2, <2>3, <2>4, <4>1, <4>3 DEF TypeInv, LogShape
            <4>. QED
                BY <4>2, <4>3
        <3>4. LogSorted'
            <4>1. SUFFICES ASSUME NEW j \in 1 .. Len(commitLog'), NEW k \in 1 .. Len(commitLog'),
                                  j <= k
                           PROVE  commitLog'[j].blk <= commitLog'[k].blk
                BY DEF LogSorted
            <4>2. CASE k = i
                <5>1. commitLog'[j].blk <= l1Height
                    BY <2>2, <3>3
                <5>. QED
                    BY <2>4, <4>2, <5>1
            <4>3. CASE k # i
                <5>1. j \in 1 .. Len(commitLog) /\ k \in 1 .. Len(commitLog)
                    BY <2>3, <2>4, <4>1, <4>3
                <5>. QED
                    BY <2>4, <4>1, <5>1 DEF TypeInv, LogShape, LogSorted
            <4>. QED
                BY <4>2, <4>3
        <3>. QED
            BY <2>3, <2>4, <3>3, <3>4 DEF LogShape
    <2>9. IndicesInRange'
        BY <2>2 DEF TypeInv, IndicesInRange, localVars
    <2>. QED
        BY <2>7, <2>8, <2>9 DEF TypeInv
<1>14. CASE AdvanceL1
    <2>1. l1Height' \in 1 .. MaxHeight /\ l1Height' >= l1Height
        BY <1>14, ConstantsAssumption DEF AdvanceL1, TypeInv, TypeOK
    <2>2. UNCHANGED <<commitLog, anchor, l2Txs, headerLen, shadowStore, proven, txs,
                      pc, localVars>>
        BY <1>14 DEF AdvanceL1
    <2>3. TypeOK'
        BY <2>1, <2>2 DEF TypeInv, TypeOK, localVars
    <2>4. LogShape'
        <3>1. \A k \in 1 .. Len(commitLog) : commitLog[k].blk \in Nat
            BY LogEntryType DEF TypeInv, TypeOK
        <3>2. l1Height \in Nat
            BY ConstantsAssumption DEF TypeInv, TypeOK
        <3>. QED
            BY <2>1, <2>2, <3>1, <3>2 DEF TypeInv, LogShape, LogSorted
    <2>5. IndicesInRange'
        BY <2>2 DEF TypeInv, IndicesInRange, localVars
    <2>. QED
        BY <2>3, <2>4, <2>5 DEF TypeInv
<1>15. CASE IncludeTx
    <2>1. PICK k \in DOMAIN txs :
            /\ txs[k].status = "pending"
            /\ \/ /\ txs' = [txs EXCEPT ![k].status = "ok"]
                  /\ shadowStore' = [shadowStore EXCEPT ![txs[k].idx] = txs[k].store]
               \/ /\ txs' = [txs EXCEPT ![k].status = "reverted"]
                  /\ UNCHANGED shadowStore
            /\ UNCHANGED <<l1Height, commitLog, anchor, l2Txs, headerLen, proven, pc,
                           localVars>>
        BY <1>15 DEF IncludeTx
    <2>2. txs[k] \in Txs /\ txs[k].idx \in Batches
        BY DEF TypeInv, TypeOK, IndicesInRange
    <2>3. /\ txs' \in Seq(Txs) /\ Len(txs') = Len(txs) /\ DOMAIN txs' = DOMAIN txs
          /\ \A j \in DOMAIN txs : txs'[j].idx = txs[j].idx
        <3>1. PICK s \in {"ok", "reverted"} : txs' = [txs EXCEPT ![k].status = s]
            BY <2>1
        <3>2. [txs[k] EXCEPT !.status = s] \in Txs
            BY <2>2 DEF Txs
        <3>3. txs' = [txs EXCEPT ![k] = [txs[k] EXCEPT !.status = s]]
            BY <3>1
        <3>. QED
            BY <3>2, <3>3 DEF TypeInv, TypeOK
    <2>4. shadowStore' \in [Batches -> [StoreFields -> B256Values(Batches)]]
        BY <2>1, <2>2 DEF TypeInv, TypeOK, Txs
    <2>5. TypeOK'
        BY <2>1, <2>3, <2>4 DEF TypeInv, TypeOK, localVars
    <2>6. LogShape'
        BY <2>1 DEF TypeInv, LogShape, LogSorted
    <2>7. IndicesInRange'
        BY <2>1, <2>3 DEF TypeInv, IndicesInRange, localVars
    <2>. QED
        BY <2>5, <2>6, <2>7 DEF TypeInv
<1>16. CASE UNCHANGED vars
    <2>1. UNCHANGED ledgerVars /\ LocalsOK'
        BY <1>0, <1>16 DEF vars, ledgerVars, localVars, LocalsOK
    <2>. QED
        BY <2>1, SyncerStep
<1>. QED
    BY <1>1, <1>2, <1>3, <1>4, <1>5, <1>6, <1>7, <1>8, <1>9, <1>10, <1>11, <1>12,
       <1>13, <1>14, <1>15, <1>16 DEF Next, Syncer, Ledgers

\* Type correctness of the syncer and its ledgers: every reachable state
\* satisfies TypeOK, in particular the receipt the task waits on is a
\* transaction it sent (sync_batch, lines 140-150).
THEOREM TypeCorrect == Spec => []TypeOK
<1>1. Init => TypeInv
    BY InitTypeInv
<1>2. TypeInv /\ [Next]_vars => TypeInv'
    BY NextTypeInv
<1>3. TypeInv => TypeOK
    BY DEF TypeInv
<1>. QED
    BY <1>1, <1>2, <1>3, PTL DEF Spec

=============================================================================
