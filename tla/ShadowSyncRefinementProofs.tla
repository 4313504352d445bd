--------------------- MODULE ShadowSyncRefinementProofs ---------------------
(***************************************************************************)
(* Proof that ShadowSync implements the abstract ShadowRollup of module    *)
(* ShadowLedger under the refinement mapping ShadowSync!Ledger (committed *)
(* is Len(commitLog), store is shadowStore, proven is proven), for every   *)
(* value of the constants whose headers hold the whole layout.            *)
(***************************************************************************)
EXTENDS ShadowSyncSafetyProofs

\* The places of the task between the candidate's selection and the end of
\* the cycle.
CandidatePCs == {"prevAnchor", "curAnchor", "resolve", "getTx", "proveState",
                 "send", "receipt", "prove"}

\* What the refinement needs beyond SafetyInv: the candidate is never the
\* genesis batch (line 202), every commitBatch sent names a batch committed
\* on the Rollup, and the slot of a proven batch holds its genuine store.
RefinementExtra ==
    /\ pc \in CandidatePCs => cand # 0
    /\ \A k \in DOMAIN txs : txs[k].idx \in 1 .. Len(commitLog)
    /\ \A i \in proven : i \in 1 .. Len(commitLog) /\ shadowStore[i] = Genuine(i)

RefInv == SafetyInv /\ RefinementExtra

\* The abstract state under the mapping.
absVars == <<Len(commitLog), shadowStore, proven>>

-----------------------------------------------------------------------------
(***************************************************************************)
(* RefInv is inductive.                                                    *)
(***************************************************************************)

\* The initial state satisfies RefInv.
LEMMA InitRefInv == Init => RefInv
BY InitSafety DEF Init, RefInv, RefinementExtra, CandidatePCs

\* The candidate stays non-zero until the cycle ends: get_committed_batch
\* returns an error for index 0, and no later step of the cycle changes it.
LEMMA CandidateStep ==
    ASSUME RefInv, [Next]_vars
    PROVE  pc' \in CandidatePCs => cand' # 0
<1>. SUFFICES ASSUME pc' \in CandidatePCs PROVE cand' # 0
    OBVIOUS
<1>. USE DEF CandidatePCs
<1>1. CASE Tick
    BY <1>1 DEF Tick
<1>2. CASE GetBlockNumber
    BY <1>2 DEF GetBlockNumber, EndCycle
<1>3. CASE GetLogs
    BY <1>3 DEF GetLogs, EndCycle
<1>4. CASE PrevAnchor \/ CurAnchor \/ GetTx \/ ProveState \/ Receipt
    BY <1>4 DEF PrevAnchor, CurAnchor, GetTx, ProveState, Receipt, EndCycle, Panic,
                RefInv, RefinementExtra, localVars
<1>5. CASE Resolve
    BY <1>5 DEF Resolve, EndCycle, Panic, RefInv, RefinementExtra, localVars
<1>6. CASE Send
    BY <1>6 DEF Send, EndCycle, RefInv, RefinementExtra
<1>7. CASE Prove \/ Restart
    BY <1>7 DEF Prove, Restart, EndCycle
<1>8. CASE Ledgers
    BY <1>8 DEF Ledgers, CommitBatch, AdvanceL1, IncludeTx, RefInv, RefinementExtra,
                localVars
<1>9. CASE UNCHANGED vars
    BY <1>9 DEF vars, localVars, RefInv, RefinementExtra
<1>. QED
    BY <1>1, <1>2, <1>3, <1>4, <1>5, <1>6, <1>7, <1>8, <1>9 DEF Next, Syncer

\* A step that leaves the Rollup's log, the transactions, the proofs and
\* the ShadowRollup alone keeps the ledger part of RefinementExtra.
LEMMA ExtraLedgerFrame ==
    ASSUME RefinementExtra, UNCHANGED <<commitLog, txs, proven, shadowStore>>
    PROVE  /\ \A k \in DOMAIN txs' : txs'[k].idx \in 1 .. Len(commitLog')
           /\ \A i \in proven' : i \in 1 .. Len(commitLog') /\ shadowStore'[i] = Genuine(i)
BY DEF RefinementExtra

\* Every step keeps RefInv, when every header holds the whole layout.
LEMMA NextRefInv ==
    ASSUME FullHeaders
    PROVE  RefInv /\ [Next]_vars => RefInv'
<1>. SUFFICES ASSUME RefInv, [Next]_vars PROVE RefInv'
    OBVIOUS
<1>. DEFINE LedgerExtra ==
        /\ \A k \in DOMAIN txs : txs[k].idx \in 1 .. Len(commitLog)
        /\ \A i \in proven : i \in 1 .. Len(commitLog) /\ shadowStore[i] = Genuine(i)
<1>0. /\ SafetyInv'
      /\ Len(commitLog) \in Nat /\ Len(txs) \in Nat /\ txs \in Seq(Txs)
      /\ shadowStore \in [Batches -> [StoreFields -> B256Values(Batches)]]
      /\ Len(commitLog) <= MaxBatch
    <2>1. SafetyInv
        BY DEF RefInv
    <2>2. SafetyInv'
        BY <2>1, NextSafety
    <2>3. /\ Len(commitLog) \in Nat /\ Len(txs) \in Nat /\ txs \in Seq(Txs)
          /\ shadowStore \in [Batches -> [StoreFields -> B256Values(Batches)]]
          /\ Len(commitLog) <= MaxBatch
        BY <2>1 DEF SafetyInv, TypeInv, TypeOK, LogShape
    <2>. QED
        BY <2>2, <2>3
<1>1. pc' \in CandidatePCs => cand' # 0
    BY CandidateStep
<1>2. CASE UNCHANGED <<commitLog, txs, proven, shadowStore>>
    BY <1>0, <1>1, <1>2, ExtraLedgerFrame DEF RefInv, RefinementExtra
<1>3. CASE Send
    <2>1. CASE /\ Len(txs) < MaxSends
               /\ txs' = Append(txs, [idx |-> cand, store |-> BatchStoreOf(header),
                                      status |-> "pending"])
               /\ pc = "send"
               /\ UNCHANGED <<commitLog, proven, shadowStore>>
        <3>1. cand \in 1 .. Len(commitLog)
            BY <2>1, <1>0 DEF RefInv, RefinementExtra, CandidatePCs, SafetyInv,
                              TaskCoherent, TypeInv, TypeOK
        <3>2. LedgerExtra'
            BY <1>0, <2>1, <3>1 DEF RefInv, RefinementExtra
        <3>. QED
            BY <1>0, <1>1, <3>2 DEF RefInv, RefinementExtra
    <2>2. CASE UNCHANGED ledgerVars
        BY <1>2, <2>2 DEF ledgerVars
    <2>. QED
        BY <1>3, <2>1, <2>2 DEF Send, EndCycle
<1>4. CASE Prove
    <2>1. /\ info.batch_index = cand /\ txs[myTx].idx = cand
          /\ txs[myTx].status = "ok" /\ myTx \in DOMAIN txs
        BY <1>4 DEF Prove, RefInv, SafetyInv, TaskCoherent, TypeInv, TypeOK
    <2>2. cand \in 1 .. Len(commitLog) /\ shadowStore[cand] = Genuine(cand)
        BY <1>4, <2>1 DEF Prove, RefInv, RefinementExtra, SafetyInv, LedgerCoherent
    <2>3. /\ proven' \subseteq proven \cup {cand}
          /\ UNCHANGED <<commitLog, txs, shadowStore>>
        BY <1>4, <2>1 DEF Prove
    <2>4. LedgerExtra'
        BY <2>2, <2>3 DEF RefInv, RefinementExtra
    <2>. QED
        BY <1>0, <1>1, <2>4 DEF RefInv, RefinementExtra
<1>5. CASE CommitBatch
    <2>1. /\ Len(commitLog') = Len(commitLog) + 1
          /\ UNCHANGED <<txs, proven, shadowStore>>
        BY <1>5 DEF CommitBatch
    <2>2. LedgerExtra'
        BY <1>0, <2>1 DEF RefInv, RefinementExtra
    <2>. QED
        BY <1>0, <1>1, <2>2 DEF RefInv, RefinementExtra
<1>6. CASE IncludeTx
    <2>1. PICK k \in DOMAIN txs :
            /\ \/ /\ txs' = [txs EXCEPT ![k].status = "ok"]
                  /\ shadowStore' = [shadowStore EXCEPT ![txs[k].idx] = txs[k].store]
               \/ /\ txs' = [txs EXCEPT ![k].status = "reverted"]
                  /\ UNCHANGED shadowStore
            /\ UNCHANGED <<commitLog, proven>>
        BY <1>6 DEF IncludeTx
    <2>2. /\ DOMAIN txs' = DOMAIN txs
          /\ \A j \in DOMAIN txs : txs'[j].idx = txs[j].idx
        <3>1. \A st \in {"ok", "reverted"} :
                txs' = [txs EXCEPT ![k].status = st] =>
                  /\ DOMAIN txs' = DOMAIN txs
                  /\ \A j \in DOMAIN txs : txs'[j].idx = txs[j].idx
            <4>1. SUFFICES ASSUME NEW st \in {"ok", "reverted"},
                                  txs' = [txs EXCEPT ![k].status = st]
                           PROVE  /\ DOMAIN txs' = DOMAIN txs
                                  /\ \A j \in DOMAIN txs : txs'[j].idx = txs[j].idx
                OBVIOUS
            <4>2. txs' = [txs EXCEPT ![k] = [txs[k] EXCEPT !.status = st]]
                BY <4>1
            <4>3. [txs[k] EXCEPT !.status = st].idx = txs[k].idx
                BY <1>0 DEF Txs
            <4>. QED
                BY <4>2, <4>3
        <3>. QED
            BY <2>1, <3>1
    <2>3. /\ txs[k].idx \in Batches /\ txs[k].store = Genuine(txs[k].idx)
        BY DEF RefInv, SafetyInv, TypeInv, IndicesInRange, LedgerCoherent
    <2>4. \A i \in Batches : shadowStore'[i] = shadowStore[i]
                                \/ (i = txs[k].idx /\ shadowStore'[i] = Genuine(i))
        BY <1>0, <2>1, <2>3
    <2>5. \A j \in DOMAIN txs' : txs'[j].idx \in 1 .. Len(commitLog')
        BY <2>1, <2>2 DEF RefInv, RefinementExtra
    <2>6. \A i \in proven' : i \in 1 .. Len(commitLog') /\ shadowStore'[i] = Genuine(i)
        <3>1. SUFFICES ASSUME NEW i \in proven'
                       PROVE  i \in 1 .. Len(commitLog') /\ shadowStore'[i] = Genuine(i)
            OBVIOUS
        <3>2. i \in 1 .. Len(commitLog) /\ shadowStore[i] = Genuine(i) /\ i \in proven
            BY <2>1 DEF RefInv, RefinementExtra
        <3>3. i \in Batches
            BY <1>0, <3>2, ConstantsAssumption DEF Batches
        <3>. QED
            BY <2>1, <2>4, <3>2, <3>3
    <2>7. LedgerExtra'
        BY <2>5, <2>6
    <2>. QED
        BY <1>0, <1>1, <2>7 DEF RefInv, RefinementExtra
<1>. QED
    <2>1. Syncer \/ Restart \/ Ledgers \/ UNCHANGED vars
        BY DEF Next
    <2>2. Tick \/ GetBlockNumber \/ GetLogs \/ PrevAnchor \/ CurAnchor \/ Resolve
          \/ GetTx \/ ProveState \/ Receipt \/ Restart \/ AdvanceL1 \/ UNCHANGED vars
          => UNCHANGED <<commitLog, txs, proven, shadowStore>>
        BY DEF Tick, GetBlockNumber, GetLogs, PrevAnchor, CurAnchor, Resolve, GetTx,
               ProveState, Receipt, Restart, AdvanceL1, vars, ledgerVars
    <2>. QED
        BY <1>2, <1>3, <1>4, <1>5, <1>6, <2>1, <2>2 DEF Syncer, Ledgers

-----------------------------------------------------------------------------
(***************************************************************************)
(* The refinement.                                                         *)
(***************************************************************************)

\* The abstract module reads the same codec: its genuine store and its empty
\* slot are those of BatchHeaderCodec.
LEMMA SameCodec ==
    /\ \A i : Ledger!Genuine(i) = Genuine(i)
    /\ Ledger!NoStore = NoStore
<1>1. \A i : Ledger!Genuine(i) = Genuine(i)
    BY DEF Ledger!Genuine, Ledger!CodecOffset, Genuine, CodecOffset
<1>2. Ledger!NoStore = NoStore
    BY DEF Ledger!NoStore, Ledger!StoreFields, Ledger!ZeroB256, NoStore, StoreFields,
           ZeroB256
<1>. QED
    BY <1>1, <1>2

\* The initial state maps to the abstract initial state: no batch, empty
\* slots, nothing proven.
LEMMA InitRefines == Init => Ledger!Init
<1>. SUFFICES ASSUME Init PROVE Ledger!Init
    OBVIOUS
<1>1. Len(commitLog) = 0
    BY DEF Init
<1>2. shadowStore = [i \in Ledger!LedgerBatches |-> Ledger!NoStore]
    BY SameCodec DEF Init, Batches, Ledger!LedgerBatches
<1>. QED
    BY <1>1, <1>2 DEF Init, Ledger!Init

\* A successful inclusion of a pending commitBatch maps to Record of its
\* batch, or, when the batch is proven already, to a stutter: its slot
\* holds that same genuine store.
LEMMA IncludeRefines ==
    ASSUME RefInv, IncludeTx
    PROVE  [Ledger!Next]_Ledger!abstractVars
<1>1. PICK k \in DOMAIN txs :
        /\ \/ /\ txs' = [txs EXCEPT ![k].status = "ok"]
              /\ shadowStore' = [shadowStore EXCEPT ![txs[k].idx] = txs[k].store]
           \/ /\ txs' = [txs EXCEPT ![k].status = "reverted"]
              /\ UNCHANGED shadowStore
        /\ UNCHANGED <<commitLog, proven>>
    BY DEF IncludeTx
<1>. DEFINE i == txs[k].idx
<1>2. /\ i \in 1 .. Len(commitLog) /\ txs[k].store = Genuine(i)
      /\ Len(commitLog) <= MaxBatch
      /\ shadowStore \in [Batches -> [StoreFields -> B256Values(Batches)]]
    BY DEF RefInv, RefinementExtra, SafetyInv, LedgerCoherent, TypeInv, TypeOK, LogShape
<1>3. i \in Batches /\ i \in 1 .. MaxBatch
    BY <1>2, ConstantsAssumption DEF Batches
<1>4. CASE UNCHANGED shadowStore
    BY <1>1, <1>4 DEF Ledger!abstractVars
<1>5. CASE shadowStore' = [shadowStore EXCEPT ![i] = Genuine(i)] /\ i \in proven
    <2>1. shadowStore[i] = Genuine(i)
        BY <1>5 DEF RefInv, RefinementExtra
    <2>2. shadowStore' = shadowStore
        BY <1>2, <1>3, <1>5, <2>1
    <2>. QED
        BY <1>1, <2>2 DEF Ledger!abstractVars
<1>6. CASE shadowStore' = [shadowStore EXCEPT ![i] = Genuine(i)] /\ i \notin proven
    <2>1. Ledger!Record(i)
        BY <1>1, <1>2, <1>6, SameCodec DEF Ledger!Record
    <2>. QED
        BY <1>3, <2>1 DEF Ledger!Next
<1>. QED
    BY <1>1, <1>2, <1>4, <1>5, <1>6

\* Every step of ShadowSync maps to a step of ShadowLedger or leaves the
\* abstract state unchanged.
LEMMA StepRefines ==
    ASSUME RefInv, [Next]_vars
    PROVE  [Ledger!Next]_Ledger!abstractVars
<1>1. CASE UNCHANGED <<commitLog, proven, shadowStore>>
    BY <1>1 DEF Ledger!abstractVars
<1>2. CASE Prove
    <2>1. /\ info.batch_index = cand /\ txs[myTx].idx = cand
          /\ txs[myTx].status = "ok" /\ myTx \in DOMAIN txs
        BY <1>2 DEF Prove, RefInv, SafetyInv, TaskCoherent, TypeInv, TypeOK
    <2>2. /\ cand \in 1 .. Len(commitLog) /\ shadowStore[cand] = Genuine(cand)
          /\ Len(commitLog) <= MaxBatch
        BY <2>1 DEF RefInv, RefinementExtra, SafetyInv, LedgerCoherent, TypeInv, LogShape
    <2>3. CASE proven' = proven \cup {info.batch_index}
        <3>1. Ledger!ProveBatch(cand)
            BY <1>2, <2>1, <2>2, <2>3, SameCodec DEF Prove, Ledger!ProveBatch
        <3>2. cand \in 1 .. MaxBatch
            BY <2>2, ConstantsAssumption
        <3>. QED
            BY <3>1, <3>2 DEF Ledger!Next
    <2>4. CASE UNCHANGED proven
        BY <1>2, <2>4 DEF Prove, Ledger!abstractVars
    <2>. QED
        BY <1>2, <2>3, <2>4 DEF Prove
<1>3. CASE CommitBatch
    <2>1. /\ Len(commitLog) < MaxBatch
          /\ Len(commitLog') = Len(commitLog) + 1
          /\ UNCHANGED <<shadowStore, proven>>
        BY <1>3 DEF CommitBatch
    <2>. QED
        BY <2>1 DEF Ledger!Next, Ledger!CommitNext
<1>4. CASE IncludeTx
    BY <1>4, IncludeRefines
<1>. QED
    <2>1. Tick \/ GetBlockNumber \/ GetLogs \/ PrevAnchor \/ CurAnchor \/ Resolve
          \/ GetTx \/ ProveState \/ Send \/ Receipt \/ Restart \/ AdvanceL1 \/ UNCHANGED vars
          => UNCHANGED <<commitLog, proven, shadowStore>>
        BY DEF Tick, GetBlockNumber, GetLogs, PrevAnchor, CurAnchor, Resolve, GetTx,
               ProveState, Send, EndCycle, Receipt, Restart, AdvanceL1, vars, ledgerVars
    <2>. QED
        BY <1>1, <1>2, <1>3, <1>4, <2>1 DEF Next, Syncer, Ledgers

-----------------------------------------------------------------------------
\* The syncer, the prover, crashes at any point and the ledgers together
\* implement the abstract ShadowRollup (RefinesShadowLedger): every
\* commitBatch that lands, however late, records the genuine commitment of
\* a committed, unproven batch or changes nothing, and the prover proves
\* only a batch so recorded.  This holds when every header holds the whole
\* layout.
THEOREM Refinement ==
    ASSUME FullHeaders
    PROVE  Spec => RefinesShadowLedger
<1>1. Spec => []RefInv
    <2>1. Init => RefInv
        BY InitRefInv
    <2>2. RefInv /\ [Next]_vars => RefInv'
        BY NextRefInv
    <2>. QED
        BY <2>1, <2>2, PTL DEF Spec
<1>2. Init => Ledger!Init
    BY InitRefines
<1>3. RefInv /\ [Next]_vars => [Ledger!Next]_Ledger!abstractVars
    BY StepRefines
<1>. QED
    BY <1>1, <1>2, <1>3, PTL DEF Spec, RefinesShadowLedger, Ledger!Spec

=============================================================================
