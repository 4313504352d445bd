----------------------- MODULE ShadowSyncSafetyProofs -----------------------
(***************************************************************************)
(* Proofs of the safety properties of ShadowSync checked by the run        *)
(* sync_release, for every value of the constants whose headers hold the   *)
(* whole layout.                                                           *)
(***************************************************************************)
EXTENDS ShadowSyncProofs

\* Every committed header is long enough for the six fields (at least 217
\* bytes): the hypothesis under which the slicing of sync_batch is exact.
FullHeaders == \A l \in HeaderLens : l >= FullHeaderLen

\* What the ledgers hold: every committed header is one of HeaderLens,
\* every commitBatch sent carries the genuine store of its batch, and the
\* slot of a successful one holds it.
LedgerCoherent ==
    /\ \A i \in 0 .. Len(commitLog) : headerLen[i] \in HeaderLens
    /\ \A k \in DOMAIN txs : txs[k].store = Genuine(txs[k].idx)
    /\ \A k \in DOMAIN txs :
          txs[k].status = "ok" => shadowStore[txs[k].idx] = Genuine(txs[k].idx)
    /\ ShadowLedgerFaithful

\* What ties the task's locals to the ledgers and to each other: the header
\* it reads is the candidate's own (the last log's parent is the candidate)
\* and a committed one; the BatchInfo, and the transaction it waits on, are
\* for the candidate; it proves only after a successful receipt, and sends
\* only after it found the batch unproven.
TaskCoherent ==
    /\ nextTx.parent = cand /\ cand <= Len(commitLog)
    /\ pc \in {"proveState", "send"} =>
          header.id = cand /\ header.len \in HeaderLens
    /\ pc \in {"getTx", "proveState", "send", "receipt", "prove"} =>
          info.batch_index = cand
    /\ pc \in {"receipt", "prove"} => txs[myTx].idx = cand
    /\ pc = "prove" => txs[myTx].status = "ok"
    /\ pc = "send" => cand \notin proven

SafetyInv == TypeInv /\ LedgerCoherent /\ TaskCoherent

-----------------------------------------------------------------------------
(***************************************************************************)
(* The header codec (sync_batch, lines 98-125).                            *)
(***************************************************************************)

\* On a header that holds the whole layout, each of the six reads of
\* sync_batch is the 32 bytes at the field's offset in BatchHeaderCodecV1:
\* neither unwrap_or_default ever fires.
LEMMA FullHeaderDecodesGenuine ==
    ASSUME NEW i, NEW len \in Nat, len >= FullHeaderLen
    PROVE  BatchStoreOf(Header(i, len)) = Genuine(i)
<1>. DEFINE h == Header(i, len)
<1>1. \A lo \in {25, 57, 89, 121, 153, 185} :
        ToB256(GetOrDefault(h, lo, lo + 32)) = [hdr |-> i, lo |-> lo, hi |-> lo + 32]
    BY DEF ToB256, GetOrDefault, Bytes, Header, FullHeaderLen
<1>2. DOMAIN CodecOffset = StoreFields
    BY DEF CodecOffset, StoreFields
<1>. QED
    BY <1>1, <1>2 DEF BatchStoreOf, Genuine, CodecOffset, StoreFields

\* The genuine store of a batch is never the empty slot: its fields are
\* bytes of a header, the empty slot's are zeros.
LEMMA GenuineNotEmpty ==
    ASSUME NEW i \in Nat
    PROVE  Genuine(i) # NoStore
<1>1. Genuine(i)["dataHash"].hdr = i
    BY DEF Genuine, CodecOffset
<1>2. NoStore["dataHash"].hdr = -1
    BY DEF NoStore, StoreFields, ZeroB256
<1>. QED
    BY <1>1, <1>2

-----------------------------------------------------------------------------
(***************************************************************************)
(* The inductive invariant SafetyInv.                                       *)
(***************************************************************************)

\* The initial state satisfies SafetyInv.
LEMMA InitSafety == Init => SafetyInv
<1>. SUFFICES ASSUME Init PROVE SafetyInv
    OBVIOUS
<1>1. TypeInv
    BY InitTypeInv
<1>2. LedgerCoherent
    <2>1. headerLen[0] \in HeaderLens
        <3>1. PICK len \in HeaderLens :
                headerLen = [i \in Batches |-> IF i = 0 THEN len ELSE 0]
            BY DEF Init
        <3>2. 0 \in Batches
            BY ConstantsAssumption DEF Batches
        <3>. QED
            BY <3>1, <3>2
    <2>2. ShadowLedgerFaithful
        BY DEF Init, ShadowLedgerFaithful
    <2>. QED
        BY <2>1, <2>2 DEF Init, LedgerCoherent
<1>3. TaskCoherent
    BY DEF Init, TaskCoherent, NoEvent
<1>. QED
    BY <1>1, <1>2, <1>3 DEF SafetyInv

\* A step of the task that leaves the ledgers alone keeps the ledger part.
LEMMA LedgerFrame ==
    ASSUME LedgerCoherent, UNCHANGED ledgerVars
    PROVE  LedgerCoherent'
BY DEF LedgerCoherent, ShadowLedgerFaithful, ledgerVars

\* Every return of sync_batch, and a restart, keeps SafetyInv: the locals
\* are dropped.
LEMMA EndCycleSafety ==
    ASSUME SafetyInv, EndCycle, UNCHANGED ledgerVars
    PROVE  SafetyInv'
<1>1. TypeInv'
    BY EndCycleStep DEF SafetyInv
<1>2. LedgerCoherent'
    BY LedgerFrame DEF SafetyInv
<1>3. TaskCoherent'
    <2>1. Len(commitLog) \in Nat /\ Len(commitLog') = Len(commitLog)
        BY DEF SafetyInv, TypeInv, TypeOK, ledgerVars
    <2>. QED
        BY <2>1 DEF EndCycle, TaskCoherent, NoEvent
<1>. QED
    BY <1>1, <1>2, <1>3 DEF SafetyInv

\* A step of the task that leaves the ledgers alone and keeps its locals
\* coherent keeps SafetyInv.
LEMMA TaskStep ==
    ASSUME SafetyInv, UNCHANGED ledgerVars, TypeInv', TaskCoherent'
    PROVE  SafetyInv'
BY LedgerFrame DEF SafetyInv

\* Every step keeps SafetyInv, when every header holds the whole layout.
LEMMA NextSafety ==
    ASSUME FullHeaders
    PROVE  SafetyInv /\ [Next]_vars => SafetyInv'
<1>. SUFFICES ASSUME SafetyInv, [Next]_vars PROVE SafetyInv'
    OBVIOUS
<1>0. /\ TypeInv'
      /\ Len(commitLog) \in Nat /\ Len(txs) \in Nat
      /\ cand \in Batches /\ Batches \subseteq Nat
    <2>1. TypeInv'
        BY NextTypeInv DEF SafetyInv
    <2>2. Len(commitLog) \in Nat /\ Len(txs) \in Nat /\ cand \in Batches
        BY DEF SafetyInv, TypeInv, TypeOK, IndicesInRange
    <2>3. Batches \subseteq Nat
        BY DEF Batches
    <2>. QED
        BY <2>1, <2>2, <2>3
<1>1. CASE Tick
    BY <1>0, <1>1, TaskStep DEF Tick, SafetyInv, TaskCoherent, ledgerVars, localVars
<1>2. CASE GetBlockNumber
    <2>1. CASE latest' = l1Height /\ pc' = "getLogs"
               /\ UNCHANGED <<cand, nextTx, prevBn, curBn, info, header, myTx>>
               /\ UNCHANGED ledgerVars
        BY <1>0, <2>1, TaskStep DEF SafetyInv, TaskCoherent, ledgerVars
    <2>. QED
        BY <1>2, <2>1, EndCycleSafety DEF GetBlockNumber
<1>3. CASE GetLogs
    <2>. DEFINE W == LogsFrom(ScanStart(latest))
    <2>1. CASE EndCycle /\ UNCHANGED ledgerVars
        BY <2>1, EndCycleSafety
    <2>2. CASE /\ Cardinality(W) >= 3
               /\ commitLog[CandidateLog(W)].idx # 0
               /\ cand' = commitLog[CandidateLog(W)].idx
               /\ nextTx' = commitLog[LastLog(W)]
               /\ pc' = "prevAnchor"
               /\ UNCHANGED <<latest, prevBn, curBn, info, header, myTx>>
               /\ UNCHANGED ledgerVars
        <3>1. ScanStart(latest) \in Int
            BY ConstantsAssumption DEF ScanStart, SafetyInv, TypeInv, TypeOK
        <3>2. /\ Len(commitLog) >= 2
              /\ LastLog(W) = Len(commitLog)
              /\ CandidateLog(W) = Len(commitLog) - 1
            BY <2>2, <3>1, CandidateIsPrevious DEF SafetyInv, TypeInv, TypeOK, LogShape
        <3>3. /\ commitLog[Len(commitLog)].parent = Len(commitLog) - 1
              /\ commitLog[Len(commitLog) - 1].idx = Len(commitLog) - 1
            BY <1>0, <3>2 DEF SafetyInv, TypeInv, LogShape
        <3>4. TaskCoherent'
            BY <1>0, <2>2, <3>2, <3>3 DEF TaskCoherent, ledgerVars
        <3>. QED
            BY <1>0, <2>2, <3>4, TaskStep
    <2>. QED
        BY <1>3, <2>1, <2>2 DEF GetLogs
<1>4. CASE PrevAnchor
    <2>1. CASE /\ prevBn' = StoredBlockNumber(cand - 1) /\ pc' = "curAnchor"
               /\ UNCHANGED <<latest, cand, nextTx, curBn, info, header, myTx>>
               /\ UNCHANGED ledgerVars
        BY <1>0, <2>1, TaskStep DEF SafetyInv, TaskCoherent, ledgerVars
    <2>. QED
        BY <1>4, <2>1, EndCycleSafety DEF PrevAnchor
<1>5. CASE CurAnchor
    <2>1. CASE /\ curBn' = StoredBlockNumber(cand) /\ pc' = "resolve"
               /\ UNCHANGED <<latest, cand, nextTx, prevBn, info, header, myTx>>
               /\ UNCHANGED ledgerVars
        BY <1>0, <2>1, TaskStep DEF SafetyInv, TaskCoherent, ledgerVars
    <2>. QED
        BY <1>5, <2>1, EndCycleSafety DEF CurAnchor
<1>6. CASE Resolve
    <2>1. CASE EndCycle /\ UNCHANGED ledgerVars
        BY <2>1, EndCycleSafety
    <2>2. CASE Panic /\ UNCHANGED ledgerVars
        BY <1>0, <2>2, TaskStep DEF Panic, SafetyInv, TaskCoherent, ledgerVars, localVars
    <2>3. CASE /\ info' = [batch_index |-> cand, start_block |-> prevBn + 1,
                           end_block |-> curBn]
               /\ pc' = "getTx"
               /\ UNCHANGED <<latest, cand, nextTx, prevBn, curBn, header, myTx>>
               /\ UNCHANGED ledgerVars
        BY <1>0, <2>3, TaskStep DEF SafetyInv, TaskCoherent, ledgerVars
    <2>. QED
        BY <1>6, <2>1, <2>2, <2>3 DEF Resolve
<1>7. CASE GetTx
    <2>1. CASE /\ header' = Header(nextTx.parent, headerLen[nextTx.parent])
               /\ pc' = "proveState"
               /\ UNCHANGED <<latest, cand, nextTx, prevBn, curBn, info, myTx>>
               /\ UNCHANGED ledgerVars
        <3>1. headerLen[cand] \in HeaderLens
            BY <1>0 DEF SafetyInv, TaskCoherent, LedgerCoherent
        <3>2. TaskCoherent'
            BY <1>0, <1>7, <2>1, <3>1 DEF GetTx, SafetyInv, TaskCoherent, Header, ledgerVars
        <3>. QED
            BY <1>0, <2>1, <3>2, TaskStep
    <2>. QED
        BY <1>7, <2>1, EndCycleSafety DEF GetTx
<1>8. CASE ProveState
    <2>1. CASE /\ cand \notin proven /\ pc' = "send"
               /\ UNCHANGED localVars /\ UNCHANGED ledgerVars
        BY <1>0, <1>8, <2>1, TaskStep DEF ProveState, SafetyInv, TaskCoherent, ledgerVars,
                                          localVars
    <2>. QED
        BY <1>8, <2>1, EndCycleSafety DEF ProveState
<1>9. CASE Send
    <2>1. CASE /\ Len(txs) < MaxSends
               /\ txs' = Append(txs, [idx |-> cand, store |-> BatchStoreOf(header),
                                      status |-> "pending"])
               /\ myTx' = Len(txs) + 1
               /\ pc' = "receipt"
               /\ UNCHANGED <<latest, cand, nextTx, prevBn, curBn, info, header>>
               /\ UNCHANGED <<l1Height, commitLog, anchor, l2Txs, headerLen,
                              shadowStore, proven>>
        <3>1. header.id = cand /\ header.len \in HeaderLens
            BY <1>9 DEF Send, SafetyInv, TaskCoherent
        <3>2. header = Header(cand, header.len)
            BY <3>1 DEF SafetyInv, TypeInv, TypeOK, Header
        <3>3. BatchStoreOf(header) = Genuine(cand)
            <4>1. header.len \in Nat /\ header.len >= FullHeaderLen
                BY <3>1, ConstantsAssumption DEF FullHeaders
            <4>. QED
                BY <3>2, <4>1, FullHeaderDecodesGenuine
        <3>4. /\ DOMAIN txs' = 1 .. (Len(txs) + 1)
              /\ \A k \in DOMAIN txs : txs'[k] = txs[k]
              /\ txs'[Len(txs) + 1] = [idx |-> cand, store |-> Genuine(cand),
                                        status |-> "pending"]
            BY <1>0, <2>1, <3>3 DEF SafetyInv, TypeInv, TypeOK
        <3>5. DOMAIN txs = 1 .. Len(txs)
            BY DEF SafetyInv, TypeInv, TypeOK
        <3>6. LedgerCoherent'
            <4>1. \A k \in DOMAIN txs' : txs'[k].store = Genuine(txs'[k].idx)
                <5>1. SUFFICES ASSUME NEW k \in DOMAIN txs'
                               PROVE  txs'[k].store = Genuine(txs'[k].idx)
                    OBVIOUS
                <5>2. CASE k \in DOMAIN txs
                    BY <3>4, <5>2 DEF SafetyInv, LedgerCoherent
                <5>3. CASE k = Len(txs) + 1
                    BY <3>4, <5>3
                <5>. QED
                    BY <1>0, <3>4, <3>5, <5>2, <5>3
            <4>2. \A k \in DOMAIN txs' :
                    txs'[k].status = "ok" => shadowStore'[txs'[k].idx] = Genuine(txs'[k].idx)
                <5>1. SUFFICES ASSUME NEW k \in DOMAIN txs', txs'[k].status = "ok"
                               PROVE  shadowStore'[txs'[k].idx] = Genuine(txs'[k].idx)
                    OBVIOUS
                <5>2. CASE k \in DOMAIN txs
                    BY <2>1, <3>4, <5>1, <5>2 DEF SafetyInv, LedgerCoherent
                <5>3. CASE k = Len(txs) + 1
                    BY <3>4, <5>1, <5>3
                <5>. QED
                    BY <1>0, <3>4, <3>5, <5>2, <5>3
            <4>. QED
                BY <2>1, <4>1, <4>2 DEF SafetyInv, LedgerCoherent, ShadowLedgerFaithful
        <3>7. TaskCoherent'
            BY <1>0, <1>9, <2>1, <3>4 DEF Send, SafetyInv, TaskCoherent
        <3>. QED
            BY <1>0, <3>6, <3>7 DEF SafetyInv
    <2>2. CASE EndCycle /\ UNCHANGED ledgerVars
        BY <2>2, EndCycleSafety
    <2>. QED
        BY <1>9, <2>1, <2>2 DEF Send
<1>10. CASE Receipt
    <2>1. CASE Panic /\ UNCHANGED ledgerVars
        BY <1>0, <2>1, TaskStep DEF Panic, SafetyInv, TaskCoherent, ledgerVars, localVars
    <2>2. CASE txs[myTx].status = "ok" /\ pc' = "prove"
               /\ UNCHANGED localVars /\ UNCHANGED ledgerVars
        BY <1>0, <1>10, <2>2, TaskStep DEF Receipt, SafetyInv, TaskCoherent, ledgerVars,
                                           localVars
    <2>3. CASE EndCycle /\ UNCHANGED ledgerVars
        BY <2>3, EndCycleSafety
    <2>. QED
        BY <1>10, <2>1, <2>2, <2>3 DEF Receipt
<1>11. CASE Prove
    <2>1. UNCHANGED <<l1Height, commitLog, anchor, l2Txs, headerLen, shadowStore, txs>>
          /\ EndCycle
        BY <1>11 DEF Prove
    <2>2. LedgerCoherent'
        BY <2>1 DEF SafetyInv, LedgerCoherent, ShadowLedgerFaithful
    <2>3. TaskCoherent'
        BY <1>0, <2>1 DEF EndCycle, TaskCoherent, NoEvent
    <2>. QED
        BY <1>0, <2>2, <2>3 DEF SafetyInv
<1>12. CASE Restart
    BY <1>12, EndCycleSafety DEF Restart
<1>13. CASE CommitBatch
    <2>. DEFINE i == Len(commitLog) + 1
    <2>1. PICK len \in HeaderLens :
            /\ commitLog' = Append(commitLog, [blk |-> l1Height, idx |-> i, parent |-> i - 1])
            /\ headerLen' = [headerLen EXCEPT ![i] = len]
        BY <1>13 DEF CommitBatch
    <2>2. UNCHANGED <<l1Height, shadowStore, proven, txs, pc, localVars>>
        BY <1>13 DEF CommitBatch
    <2>3. Len(commitLog') = i /\ i \in Batches
        BY <1>0, <1>13, <2>1, ConstantsAssumption DEF CommitBatch, Batches
    <2>4. \A j \in 0 .. Len(commitLog') : headerLen'[j] \in HeaderLens
        <3>1. SUFFICES ASSUME NEW j \in 0 .. Len(commitLog') PROVE headerLen'[j] \in HeaderLens
            OBVIOUS
        <3>2. headerLen \in [Batches -> Nat] /\ j \in Batches
            <4>1. headerLen \in [Batches -> Nat]
                BY DEF SafetyInv, TypeInv, TypeOK
            <4>2. j \in 0 .. i /\ i \in 0 .. MaxBatch
                BY <2>3 DEF Batches
            <4>. QED
                BY <4>1, <4>2, ConstantsAssumption DEF Batches
        <3>3. CASE j = i
            BY <2>1, <3>2, <3>3
        <3>4. CASE j # i
            <4>1. j \in 0 .. Len(commitLog)
                BY <1>0, <2>3, <3>4
            <4>. QED
                BY <2>1, <3>2, <4>1, <3>4 DEF SafetyInv, LedgerCoherent
        <3>. QED
            BY <3>3, <3>4
    <2>5. LedgerCoherent'
        BY <2>2, <2>4 DEF SafetyInv, LedgerCoherent, ShadowLedgerFaithful
    <2>6. TaskCoherent'
        BY <1>0, <2>2, <2>3 DEF SafetyInv, TaskCoherent, localVars
    <2>. QED
        BY <1>0, <2>5, <2>6 DEF SafetyInv
<1>14. CASE AdvanceL1
    BY <1>0, <1>14 DEF AdvanceL1, SafetyInv, LedgerCoherent, ShadowLedgerFaithful,
                       TaskCoherent, localVars
<1>15. CASE IncludeTx
    <2>1. PICK k \in DOMAIN txs :
            /\ txs[k].status = "pending"
            /\ \/ /\ txs' = [txs EXCEPT ![k].status = "ok"]
                  /\ shadowStore' = [shadowStore EXCEPT ![txs[k].idx] = txs[k].store]
               \/ /\ txs' = [txs EXCEPT ![k].status = "reverted"]
                  /\ UNCHANGED shadowStore
            /\ UNCHANGED <<l1Height, commitLog, anchor, l2Txs, headerLen, proven, pc,
                           localVars>>
        BY <1>15 DEF IncludeTx
    <2>. DEFINE ok == txs' = [txs EXCEPT ![k].status = "ok"]
                       /\ shadowStore' = [shadowStore EXCEPT ![txs[k].idx] = txs[k].store]
                rv == txs' = [txs EXCEPT ![k].status = "reverted"]
                       /\ UNCHANGED shadowStore
    <2>2. txs \in Seq(Txs) /\ txs[k] \in Txs
        BY DEF SafetyInv, TypeInv, TypeOK
    <2>3. /\ DOMAIN txs' = DOMAIN txs
          /\ \A j \in DOMAIN txs : txs'[j].idx = txs[j].idx /\ txs'[j].store = txs[j].store
          /\ \A j \in DOMAIN txs \ {k} : txs'[j] = txs[j]
          /\ ok => txs'[k].status = "ok"
          /\ rv => txs'[k].status = "reverted"
        <3>1. \A st \in {"ok", "reverted"} :
                txs' = [txs EXCEPT ![k].status = st] =>
                  /\ DOMAIN txs' = DOMAIN txs
                  /\ \A j \in DOMAIN txs :
                        txs'[j].idx = txs[j].idx /\ txs'[j].store = txs[j].store
                  /\ \A j \in DOMAIN txs \ {k} : txs'[j] = txs[j]
                  /\ txs'[k].status = st
            <4>1. SUFFICES ASSUME NEW st \in {"ok", "reverted"},
                                  txs' = [txs EXCEPT ![k].status = st]
                           PROVE  /\ DOMAIN txs' = DOMAIN txs
                                  /\ \A j \in DOMAIN txs :
                                        txs'[j].idx = txs[j].idx
                                        /\ txs'[j].store = txs[j].store
                                  /\ \A j \in DOMAIN txs \ {k} : txs'[j] = txs[j]
                                  /\ txs'[k].status = st
                OBVIOUS
            <4>2. txs' = [txs EXCEPT ![k] = [txs[k] EXCEPT !.status = st]]
                BY <4>1
            <4>3. /\ [txs[k] EXCEPT !.status = st].idx = txs[k].idx
                  /\ [txs[k] EXCEPT !.status = st].store = txs[k].store
                  /\ [txs[k] EXCEPT !.status = st].status = st
                BY <2>2 DEF Txs
            <4>. QED
                BY <4>2, <4>3
        <3>. QED
            BY <2>1, <3>1
    <2>4. txs[k].idx \in Batches /\ txs[k].store = Genuine(txs[k].idx)
        BY DEF SafetyInv, TypeInv, IndicesInRange, LedgerCoherent
    <2>5. shadowStore \in [Batches -> [StoreFields -> B256Values(Batches)]]
        BY DEF SafetyInv, TypeInv, TypeOK
    <2>6. /\ ok => shadowStore' = [shadowStore EXCEPT ![txs[k].idx] = Genuine(txs[k].idx)]
          /\ rv => shadowStore' = shadowStore
        BY <2>4
    <2>7. ShadowLedgerFaithful'
        BY <2>1, <2>4, <2>5, <2>6 DEF SafetyInv, LedgerCoherent, ShadowLedgerFaithful
    <2>8. \A j \in DOMAIN txs' :
            txs'[j].status = "ok" => shadowStore'[txs'[j].idx] = Genuine(txs'[j].idx)
        <3>1. SUFFICES ASSUME NEW j \in DOMAIN txs', txs'[j].status = "ok"
                       PROVE  shadowStore'[txs'[j].idx] = Genuine(txs'[j].idx)
            OBVIOUS
        <3>2. txs[j].idx \in Batches
            BY <2>3, <3>1 DEF SafetyInv, TypeInv, IndicesInRange
        <3>3. CASE j = k
            <4>1. ok
                BY <2>1, <2>3, <3>1, <3>3
            <4>. QED
                BY <2>3, <2>4, <2>5, <2>6, <3>3, <4>1
        <3>4. CASE j # k
            <4>1. txs[j].status = "ok" /\ txs'[j].idx = txs[j].idx
                BY <2>3, <3>1, <3>4
            <4>2. shadowStore[txs[j].idx] = Genuine(txs[j].idx)
                BY <2>3, <3>1, <4>1 DEF SafetyInv, LedgerCoherent
            <4>. QED
                BY <2>1, <2>4, <2>5, <2>6, <3>2, <4>1, <4>2
        <3>. QED
            BY <3>3, <3>4
    <2>9. LedgerCoherent'
        BY <2>1, <2>3, <2>7, <2>8 DEF SafetyInv, LedgerCoherent
    <2>10. TaskCoherent'
        <3>1. pc = "prove" => myTx # k
            BY <2>1 DEF SafetyInv, TaskCoherent
        <3>2. pc \in {"receipt", "prove"} => myTx \in DOMAIN txs
            BY DEF SafetyInv, TypeInv, TypeOK
        <3>. QED
            BY <2>1, <2>3, <3>1, <3>2 DEF SafetyInv, TaskCoherent, localVars
    <2>. QED
        BY <1>0, <2>9, <2>10 DEF SafetyInv
<1>16. CASE UNCHANGED vars
    BY <1>0, <1>16 DEF vars, ledgerVars, localVars, SafetyInv, LedgerCoherent,
                       ShadowLedgerFaithful, TaskCoherent
<1>. QED
    BY <1>1, <1>2, <1>3, <1>4, <1>5, <1>6, <1>7, <1>8, <1>9, <1>10, <1>11, <1>12,
       <1>13, <1>14, <1>15, <1>16 DEF Next, Syncer, Ledgers

-----------------------------------------------------------------------------
(***************************************************************************)
(* The theorems.                                                           *)
(***************************************************************************)

\* SafetyInv holds in every reachable state when every header holds the
\* whole layout.
THEOREM SafetyInvariant ==
    ASSUME FullHeaders
    PROVE  Spec => []SafetyInv
<1>1. Init => SafetyInv
    BY InitSafety
<1>2. SafetyInv /\ [Next]_vars => SafetyInv'
    BY NextSafety
<1>. QED
    BY <1>1, <1>2, PTL DEF Spec

\* The ShadowRollup holds only genuine commitments: through crashes between
\* send and receipt, resends and reverts, every slot the syncer's
\* commitBatch writes (sync_batch, lines 98-141) holds the six fields of
\* that very batch's header, because the candidate (second to last log) is
\* always the parent named in the last log's transaction.
THEOREM ShadowLedgerIsFaithful ==
    ASSUME FullHeaders
    PROVE  Spec => []ShadowLedgerFaithful
<1>1. SafetyInv => ShadowLedgerFaithful
    BY DEF SafetyInv, LedgerCoherent
<1>. QED
    BY <1>1, SafetyInvariant, PTL

\* The prover is handed a batch (main.rs:78) only once a commitBatch for
\* it was included successfully (sync_batch, lines 149-156): its slot on the
\* ShadowRollup is filled.
THEOREM ProverOnlyGetsCommittedBatches ==
    ASSUME FullHeaders
    PROVE  Spec => []ProverGetsCommittedBatch
<1>1. SafetyInv => ProverGetsCommittedBatch
    <2>1. SUFFICES ASSUME SafetyInv, pc = "prove"
                   PROVE  shadowStore[info.batch_index] # NoStore
        BY DEF ProverGetsCommittedBatch
    <2>2. /\ info.batch_index = cand
          /\ txs[myTx].idx = cand /\ txs[myTx].status = "ok"
          /\ myTx \in DOMAIN txs
        BY <2>1 DEF SafetyInv, TaskCoherent, TypeInv, TypeOK
    <2>3. shadowStore[cand] = Genuine(cand)
        BY <2>1, <2>2 DEF SafetyInv, LedgerCoherent
    <2>4. cand \in Nat
        BY <2>1 DEF SafetyInv, TypeInv, TypeOK
    <2>. QED
        BY <2>2, <2>3, <2>4, GenuineNotEmpty
<1>. QED
    BY <1>1, SafetyInvariant, PTL

\* The idempotency guard (sync_batch, line 73) holds across the awaits
\* between it and the send: no commitBatch is sent for a batch the
\* ShadowRollup reports proven.
THEOREM NoCommitAfterProof ==
    ASSUME FullHeaders
    PROVE  Spec => NoCommitOfProvenBatch
<1>1. SafetyInv /\ [Next]_vars =>
        [\A k \in DOMAIN txs' \ DOMAIN txs : txs'[k].idx \notin proven]_vars
    <2>1. SUFFICES ASSUME SafetyInv, [Next]_vars
                   PROVE  \A k \in DOMAIN txs' \ DOMAIN txs : txs'[k].idx \notin proven
        OBVIOUS
    <2>2. txs \in Seq(Txs) /\ Len(txs) \in Nat
        BY <2>1 DEF SafetyInv, TypeInv, TypeOK
    <2>3. CASE Send
        <3>1. CASE /\ Len(txs) < MaxSends
                   /\ txs' = Append(txs, [idx |-> cand, store |-> BatchStoreOf(header),
                                          status |-> "pending"])
                   /\ pc = "send"
            <4>1. DOMAIN txs' \ DOMAIN txs = {Len(txs) + 1}
                BY <2>2, <3>1
            <4>2. txs'[Len(txs) + 1].idx = cand /\ cand \notin proven
                BY <2>1, <2>2, <3>1 DEF SafetyInv, TaskCoherent
            <4>. QED
                BY <4>1, <4>2
        <3>2. CASE UNCHANGED ledgerVars
            BY <3>2 DEF ledgerVars
        <3>. QED
            BY <2>3, <3>1, <3>2 DEF Send, EndCycle
    <2>4. CASE IncludeTx
        <3>1. DOMAIN txs' = DOMAIN txs
            BY <2>4 DEF IncludeTx
        <3>. QED
            BY <3>1
    <2>5. CASE ~Send /\ ~IncludeTx
        <3>1. txs' = txs
            BY <2>1, <2>5 DEF Next, Syncer, Ledgers, Tick, GetBlockNumber, GetLogs,
                              PrevAnchor, CurAnchor, Resolve, GetTx, ProveState, Receipt,
                              Prove, Restart, CommitBatch, AdvanceL1, vars, ledgerVars
        <3>. QED
            BY <3>1
    <2>. QED
        BY <2>3, <2>4, <2>5
<1>. QED
    BY <1>1, SafetyInvariant, PTL DEF Spec, NoCommitOfProvenBatch
=============================================================================
